---- MODULE Spec2Model ----
(***************************************************************************)
(* Model of bin/agents-analyze.js, the codebase analysis engine of         *)
(* agents-config: the directory scan, the file categorizer, the            *)
(* naming-convention inferencer, the manifest inspector and the            *)
(* configuration verifier, each applied by main() to the project           *)
(* directory, and the run of main() from the command line flags to the     *)
(* exit of the process.  Paths are strings, and the path and string        *)
(* library calls of the source (path.join, path.basename, path.extname,    *)
(* path.relative, String.includes, String.startsWith, String.toLowerCase)  *)
(* are computed character by character.                                    *)
(***************************************************************************)
EXTENDS Integers, Sequences, FiniteSets, TLC

VARIABLES pc, projectDir, files, categories, conventions, pkgFile, packageJson,
          fsTree, fileStructure, args, cfgFile, projectConfig, agentConfigs,
          verification, answer, written, errors, exitCode,
          tsFile, readmeFile, tsconfig, readme, keyFiles, today,
          analysisReport, projectContext,
          detected, selectedAgents, initConfig, filesToCreate

scanVars == <<fsTree, fileStructure>>

reportVars ==
    <<tsFile, readmeFile, tsconfig, readme, keyFiles, today, analysisReport,
      projectContext>>

initVars == <<detected, selectedAgents, initConfig, filesToCreate>>

runVars ==
    <<args, cfgFile, projectConfig, agentConfigs, verification, answer,
      written, errors, exitCode>>

vars ==
    <<pc, projectDir, files, categories, conventions, pkgFile, packageJson,
      scanVars, runVars, reportVars, initVars>>

(***************************************************************************)
(* Bounds of the model.                                                    *)
(***************************************************************************)
MaxFiles == 2

\* most files of one kind (other than index files) in a scanned tree
MaxPerKind == 2

\* most files whose name holds both test markers
MaxMixed == 1

\* most index files in a scanned tree
MaxIndexFiles == 11

\* most entries of dependencies and devDependencies together
MaxDeps == 2

(***************************************************************************)
(* String and path library.                                                *)
(***************************************************************************)
SetMax(S) == CHOOSE m \in S : \A n \in S : n <= m

StartsWith(s, p) == Len(s) >= Len(p) /\ SubSeq(s, 1, Len(p)) = p

EndsWith(s, p) == Len(s) >= Len(p) /\ SubSeq(s, Len(s) - Len(p) + 1, Len(s)) = p

Includes(s, sub) ==
    \E i \in 1..(Len(s) - Len(sub) + 1) : SubSeq(s, i, i + Len(sub) - 1) = sub

LastIndexOf(s, c) ==
    LET I == {i \in 1..Len(s) : SubSeq(s, i, i) = c}
    IN  IF I = {} THEN 0 ELSE SetMax(I)

\* path.basename(p): the part after the last separator
basename(p) == SubSeq(p, LastIndexOf(p, "/") + 1, Len(p))

\* path.extname(p): from the last dot of the basename, "" when there is no
\* dot or the only dot is the basename's first character
extname(p) ==
    LET b == basename(p)
        d == LastIndexOf(b, ".")
    IN  IF d <= 1 THEN "" ELSE SubSeq(b, d, Len(b))

\* path.basename(p, ext): the basename without a trailing ext
basenameNoExt(p, ext) ==
    LET b == basename(p)
    IN  IF ext # "" /\ b # ext /\ EndsWith(b, ext)
        THEN SubSeq(b, 1, Len(b) - Len(ext))
        ELSE b

\* path.relative(from, to) for a path `to` below the directory `from`
relative(from, to) ==
    CASE StartsWith(to, from \o "/") -> SubSeq(to, Len(from) + 2, Len(to))

(***************************************************************************)
(* The file system.  A tree maps the absolute path of every entry to its   *)
(* node: a file, a directory with the names readdirSync lists (in listing  *)
(* order) and a flag telling whether the process may read it, or a         *)
(* symbolic link with the real path of its target.                         *)
(***************************************************************************)
FileNode == [kind |-> "file", entries |-> <<>>, readable |-> TRUE, target |-> ""]

DirNode(names, r) ==
    [kind |-> "dir", entries |-> names, readable |-> r, target |-> ""]

LinkNode(t) ==
    [kind |-> "symlink", entries |-> <<>>, readable |-> TRUE, target |-> t]

\* path.join(dir, name)
join(dir, name) == dir \o "/" \o name

\* path.dirname(p)
dirname(p) == SubSeq(p, 1, LastIndexOf(p, "/") - 1)

\* the path the kernel resolves p to: links on the way are followed
RECURSIVE Realpath(_, _)
Realpath(fsT, p) ==
    IF p \in DOMAIN fsT
    THEN (IF fsT[p].kind = "symlink" THEN fsT[p].target ELSE p)
    ELSE IF LastIndexOf(p, "/") <= 1 THEN p
    ELSE LET q == join(Realpath(fsT, dirname(p)), basename(p))
         IN  IF q = p THEN p ELSE Realpath(fsT, q)

\* fs.existsSync(p)
existsSync(fsT, p) == Realpath(fsT, p) \in DOMAIN fsT

\* the Dirent of entry name of directory dir: readdirSync with
\* withFileTypes reports the type of the entry itself, a link is a link
Dirent(fsT, dir, name) == fsT[join(Realpath(fsT, dir), name)]

\* entry.isDirectory() of a Dirent that follows links, as fs.statSync does
EntryIsDirectory_Follow(fsT, dir, name) ==
    LET e == Dirent(fsT, dir, name)
    IN  \/ e.kind = "dir"
        \/ e.kind = "symlink" /\ fsT[e.target].kind = "dir"

\* entry.isDirectory()
EntryIsDirectory(fsT, dir, name) == Dirent(fsT, dir, name).kind = "dir"

\* fs.readdirSync(dir, { withFileTypes: true }) throws
ReadDirThrows(fsT, dir) ==
    LET real == Realpath(fsT, dir)
    IN  \/ real \notin DOMAIN fsT
        \/ fsT[real].kind # "dir"
        \/ ~fsT[real].readable

readdirSync(fsT, dir) == fsT[Realpath(fsT, dir)].entries

(***************************************************************************)
(* scanDirectory.  reads is the list of the directories readdirSync has    *)
(* listed, by real path; threw tells that the call ended by an exception.  *)
(***************************************************************************)
IGNORE_DIRS ==
    {"node_modules", ".git", ".next", ".nuxt", "dist", "build", "out",
     ".cache", "coverage", ".turbo", ".vercel"}

\* default of the maxDepth parameter
DefaultMaxDepth == 10

EmptyResults ==
    [files |-> <<>>, dirs |-> <<>>, totalFiles |-> 0, totalDirs |-> 0,
     reads |-> <<>>, threw |-> FALSE]

\* a scan that skips the listed names only
SkipsDirectory_ListOnly(name) == name \in IGNORE_DIRS

\* IGNORE_DIRS.includes(entry.name) || entry.name.startsWith('.')
SkipsDirectory(name) == name \in IGNORE_DIRS \/ StartsWith(name, ".")

\* a limit that lets the directories at depth maxDepth be read
DepthReached_Beyond(currentDepth, maxDepth) == currentDepth > maxDepth

\* if (currentDepth >= maxDepth)
DepthReached(currentDepth, maxDepth) == currentDepth >= maxDepth

\* a catch block that throws the error again
CatchBlock_Rethrow(results) == [results EXCEPT !.threw = TRUE]

\* catch (e) { /* Ignore permission errors */ }
CatchBlock(results) == [results EXCEPT !.threw = FALSE]

RECURSIVE scanDirectory(_, _, _, _)
RECURSIVE ScanEntries(_, _, _, _, _, _)
\* the for loop of scanDirectory from entry i on
ScanEntries(fsT, dir, maxDepth, currentDepth, i, results) ==
    LET entries == readdirSync(fsT, dir)
    IN  IF i > Len(entries) THEN results
        ELSE
        LET name == entries[i]
            fullPath == join(dir, name)
        IN  IF EntryIsDirectory(fsT, dir, name)
            THEN IF SkipsDirectory(name)
                 THEN ScanEntries(fsT, dir, maxDepth, currentDepth, i + 1,
                                  results)
                 ELSE
                 LET subResults ==
                         scanDirectory(fsT, fullPath, maxDepth,
                                       currentDepth + 1)
                     merged ==
                         [files |-> results.files \o subResults.files,
                          dirs |-> Append(results.dirs, fullPath)
                                       \o subResults.dirs,
                          totalFiles |->
                              results.totalFiles + subResults.totalFiles,
                          totalDirs |->
                              results.totalDirs + 1 + subResults.totalDirs,
                          reads |-> results.reads \o subResults.reads,
                          threw |-> FALSE]
                 IN  IF subResults.threw
                     THEN CatchBlock([results EXCEPT
                                        !.dirs = Append(@, fullPath),
                                        !.totalDirs = @ + 1,
                                        !.reads = @ \o subResults.reads])
                     ELSE ScanEntries(fsT, dir, maxDepth, currentDepth,
                                      i + 1, merged)
            ELSE ScanEntries(fsT, dir, maxDepth, currentDepth, i + 1,
                             [results EXCEPT
                                !.files = Append(@, fullPath),
                                !.totalFiles = @ + 1])

scanDirectory(fsT, dir, maxDepth, currentDepth) ==
    IF DepthReached(currentDepth, maxDepth) THEN EmptyResults
    ELSE IF ReadDirThrows(fsT, dir) THEN CatchBlock(EmptyResults)
    ELSE ScanEntries(fsT, dir, maxDepth, currentDepth, 1,
                     [EmptyResults EXCEPT
                        !.reads = <<Realpath(fsT, dir)>>])

\* fileStructure before the scan has run
NotScanned == EmptyResults

(***************************************************************************)
(* categorizeFiles                                                         *)
(***************************************************************************)
Labels ==
    <<"components", "pages", "api", "hooks", "utils", "tests", "styles",
      "config", "other">>

CodeExts == {".ts", ".tsx", ".js", ".jsx"}

StyleExts == {".css", ".scss", ".less", ".sass"}

EmptyCategories == [l \in {Labels[i] : i \in 1..Len(Labels)} |-> <<>>]

\* the condition of each branch of the if / else-if chain of the loop body
RuleMatches(l, relativePath, ext, base) ==
    CASE l = "components" ->
           Includes(relativePath, "components/")
             \/ Includes(relativePath, "Components/")
      [] l = "pages" ->
           Includes(relativePath, "pages/")
             \/ (Includes(relativePath, "app/") /\ ext \in CodeExts)
      [] l = "api" ->
           Includes(relativePath, "api/") \/ Includes(relativePath, "server/")
             \/ Includes(relativePath, "functions/")
      [] l = "hooks" ->
           Includes(relativePath, "hooks/") \/ StartsWith(base, "use")
      [] l = "utils" ->
           Includes(relativePath, "utils/") \/ Includes(relativePath, "lib/")
             \/ Includes(relativePath, "helpers/")
      [] l = "tests" ->
           Includes(base, ".test.") \/ Includes(base, ".spec.")
             \/ Includes(relativePath, "__tests__")
      [] l = "styles" -> ext \in StyleExts
      [] l = "config" ->
           Includes(base, "config") \/ base = "tsconfig.json"
             \/ StartsWith(base, ".env")

\* the chain with the test branch moved in front of the directory branches
CategoryOf_TestsFirst(relativePath, ext, base) ==
    IF RuleMatches("tests", relativePath, ext, base) THEN "tests"
    ELSE IF RuleMatches("components", relativePath, ext, base) THEN "components"
    ELSE IF RuleMatches("pages", relativePath, ext, base) THEN "pages"
    ELSE IF RuleMatches("api", relativePath, ext, base) THEN "api"
    ELSE IF RuleMatches("hooks", relativePath, ext, base) THEN "hooks"
    ELSE IF RuleMatches("utils", relativePath, ext, base) THEN "utils"
    ELSE IF RuleMatches("styles", relativePath, ext, base) THEN "styles"
    ELSE IF RuleMatches("config", relativePath, ext, base) THEN "config"
    ELSE "other"

\* the chain with the config branch tried before the style branch
CategoryOf_ConfigFirst(relativePath, ext, base) ==
    IF RuleMatches("components", relativePath, ext, base) THEN "components"
    ELSE IF RuleMatches("pages", relativePath, ext, base) THEN "pages"
    ELSE IF RuleMatches("api", relativePath, ext, base) THEN "api"
    ELSE IF RuleMatches("hooks", relativePath, ext, base) THEN "hooks"
    ELSE IF RuleMatches("utils", relativePath, ext, base) THEN "utils"
    ELSE IF RuleMatches("tests", relativePath, ext, base) THEN "tests"
    ELSE IF RuleMatches("config", relativePath, ext, base) THEN "config"
    ELSE IF RuleMatches("styles", relativePath, ext, base) THEN "styles"
    ELSE "other"

\* the if / else-if chain of the loop body: the label of the bucket the
\* file is pushed to
CategoryOf(relativePath, ext, base) ==
    IF RuleMatches("components", relativePath, ext, base) THEN "components"
    ELSE IF RuleMatches("pages", relativePath, ext, base) THEN "pages"
    ELSE IF RuleMatches("api", relativePath, ext, base) THEN "api"
    ELSE IF RuleMatches("hooks", relativePath, ext, base) THEN "hooks"
    ELSE IF RuleMatches("utils", relativePath, ext, base) THEN "utils"
    ELSE IF RuleMatches("tests", relativePath, ext, base) THEN "tests"
    ELSE IF RuleMatches("styles", relativePath, ext, base) THEN "styles"
    ELSE IF RuleMatches("config", relativePath, ext, base) THEN "config"
    ELSE "other"

\* an iteration whose test branch is a separate if instead of an else-if
PushFile_TwoIfs(cats, file, dir) ==
    LET relativePath == relative(dir, file)
        ext  == extname(file)
        base == basename(file)
        l    == CategoryOf(relativePath, ext, base)
        c1   == [cats EXCEPT ![l] = Append(@, relativePath)]
    IN  IF l # "tests" /\ (Includes(base, ".test.") \/ Includes(base, ".spec."))
        THEN [c1 EXCEPT !["tests"] = Append(@, relativePath)]
        ELSE c1

\* one iteration of the loop: exactly one push
PushFile(cats, file, dir) ==
    LET relativePath == relative(dir, file)
        ext  == extname(file)
        base == basename(file)
    IN  [cats EXCEPT ![CategoryOf(relativePath, ext, base)] =
                         Append(@, relativePath)]

RECURSIVE CategorizeFrom(_, _, _, _)
CategorizeFrom(cats, fs, dir, i) ==
    IF i > Len(fs) THEN cats
    ELSE CategorizeFrom(PushFile(cats, fs[i], dir), fs, dir, i + 1)

categorizeFiles(fs, dir) == CategorizeFrom(EmptyCategories, fs, dir, 1)

(***************************************************************************)
(* analyzeNamingConventions                                                *)
(***************************************************************************)
UpperChars ==
    {"A", "B", "C", "D", "E", "F", "G", "H", "I", "J", "K", "L", "M",
     "N", "O", "P", "Q", "R", "S", "T", "U", "V", "W", "X", "Y", "Z"}

LowerChars ==
    {"a", "b", "c", "d", "e", "f", "g", "h", "i", "j", "k", "l", "m",
     "n", "o", "p", "q", "r", "s", "t", "u", "v", "w", "x", "y", "z"}

DigitChars == {"0", "1", "2", "3", "4", "5", "6", "7", "8", "9"}

CharAt(s, i) == SubSeq(s, i, i)

\* /^[A-Z][a-zA-Z0-9]*$/
IsPascal(b) ==
    /\ Len(b) >= 1
    /\ CharAt(b, 1) \in UpperChars
    /\ \A i \in 2..Len(b) :
          CharAt(b, i) \in LowerChars \cup UpperChars \cup DigitChars

\* /^[a-z][a-zA-Z0-9]*$/
IsCamel(b) ==
    /\ Len(b) >= 1
    /\ CharAt(b, 1) \in LowerChars
    /\ \A i \in 2..Len(b) :
          CharAt(b, i) \in LowerChars \cup UpperChars \cup DigitChars

\* /^[a-z][a-z0-9-]*$/
IsKebab(b) ==
    /\ Len(b) >= 1
    /\ CharAt(b, 1) \in LowerChars
    /\ \A i \in 2..Len(b) :
          CharAt(b, i) \in LowerChars \cup DigitChars \cup {"-"}

IndexFilesThreshold == 5

BarrelExportsThreshold == 10

ZeroCounts ==
    [pascalCount |-> 0, camelCount |-> 0, kebabCount |-> 0, tsxCount |-> 0,
     jsxCount |-> 0, testCount |-> 0, specCount |-> 0, indexCount |-> 0]

\* one iteration of the tallying loop
TallyFile(c, file) ==
    LET ext  == extname(file)
        base == basenameNoExt(file, ext)
        c1 == IF IsPascal(base) THEN [c EXCEPT !.pascalCount = @ + 1]
              ELSE IF IsCamel(base) THEN [c EXCEPT !.camelCount = @ + 1]
              ELSE IF IsKebab(base) THEN [c EXCEPT !.kebabCount = @ + 1]
              ELSE c
        c2 == IF ext = ".tsx" THEN [c1 EXCEPT !.tsxCount = @ + 1]
              ELSE IF ext = ".jsx" THEN [c1 EXCEPT !.jsxCount = @ + 1]
              ELSE c1
        c3 == IF Includes(file, ".test.") THEN [c2 EXCEPT !.testCount = @ + 1]
              ELSE IF Includes(file, ".spec.") THEN [c2 EXCEPT !.specCount = @ + 1]
              ELSE c2
    IN  IF base = "index" THEN [c3 EXCEPT !.indexCount = @ + 1] ELSE c3

RECURSIVE TallyFrom(_, _, _)
TallyFrom(c, fs, i) ==
    IF i > Len(fs) THEN c ELSE TallyFrom(TallyFile(c, fs[i]), fs, i + 1)

\* "null" stands for the null the field is initialised with
componentStyleOf(c) ==
    IF c.pascalCount > c.camelCount /\ c.pascalCount > c.kebabCount
    THEN "PascalCase"
    ELSE IF c.camelCount > c.pascalCount /\ c.camelCount > c.kebabCount
    THEN "camelCase"
    ELSE IF c.kebabCount > 0
    THEN "kebab-case"
    ELSE "null"

fileExtensionOf(c) == IF c.tsxCount > c.jsxCount THEN ".tsx" ELSE ".jsx"

testNamingOf_Strict(c) == IF c.testCount > c.specCount THEN ".test." ELSE ".spec."

testNamingOf(c) == IF c.testCount >= c.specCount THEN ".test." ELSE ".spec."

indexFilesOf_AtLeast(c) == c.indexCount >= IndexFilesThreshold

indexFilesOf(c) == c.indexCount > IndexFilesThreshold

barrelExportsOf(c) == c.indexCount > BarrelExportsThreshold

analyzeNamingConventions(fs) ==
    LET c == TallyFrom(ZeroCounts, fs, 1)
    IN  [componentStyle |-> componentStyleOf(c),
         fileExtension  |-> fileExtensionOf(c),
         testNaming     |-> testNamingOf(c),
         indexFiles     |-> indexFilesOf(c),
         barrelExports  |-> barrelExportsOf(c)]

(***************************************************************************)
(* analyzePackageJson.  A JSON value of a dependency map is a record       *)
(* [t, s]: t its type and s its string conversion; "null" stands for null  *)
(* in the fields of the analysis.                                          *)
(***************************************************************************)
Undefined == [t |-> "undefined", s |-> "undefined"]

Str(x) == [t |-> "str", s |-> x]

Num(x) == [t |-> "num", s |-> ToString(x)]

\* ToBoolean of a JSON value
Truthy(v) ==
    CASE v.t = "str" -> v.s # ""
      [] v.t = "num" -> v.s # "0"
      [] OTHER -> FALSE

NoDeps == [n \in {} |-> Undefined]

\* { ...pkg.dependencies, ...pkg.devDependencies }
SpreadDeps(d, dd) ==
    [n \in DOMAIN d \cup DOMAIN dd |-> IF n \in DOMAIN dd THEN dd[n] ELSE d[n]]

\* deps[name]
Dep(deps, name) == IF name \in DOMAIN deps THEN deps[name] ELSE Undefined

\* if (deps[name])
Has(deps, name) == Truthy(Dep(deps, name))

EmptyAnalysis ==
    [name |-> "null", version |-> "null", type |-> "null",
     framework |-> "null", styling |-> "null", database |-> "null",
     testing |-> "null", linting |-> "null", buildTool |-> "null",
     deployment |-> "null", features |-> <<>>, scripts |-> {},
     keyDependencies |-> <<>>]

\* `name@${deps[name]}`
KeyDep(deps, name) == name \o "@" \o Dep(deps, name).s

frameworkOf(deps) ==
    IF Has(deps, "next") THEN "Next.js"
    ELSE IF Has(deps, "remix") \/ Has(deps, "@remix-run/react") THEN "Remix"
    ELSE IF Has(deps, "astro") THEN "Astro"
    ELSE IF Has(deps, "nuxt") THEN "Nuxt"
    ELSE IF Has(deps, "svelte") \/ Has(deps, "@sveltejs/kit") THEN "SvelteKit"
    ELSE IF Has(deps, "gatsby") THEN "Gatsby"
    ELSE IF Has(deps, "react")
    THEN (IF Has(deps, "vite") THEN "React (Vite)" ELSE "React")
    ELSE IF Has(deps, "vue") THEN "Vue"
    ELSE "null"

stylingOf(deps) ==
    IF Has(deps, "tailwindcss") THEN "Tailwind CSS"
    ELSE IF Has(deps, "@mui/material") THEN "Material-UI"
    ELSE IF Has(deps, "styled-components") THEN "Styled Components"
    ELSE IF Has(deps, "@emotion/react") THEN "Emotion"
    ELSE IF Has(deps, "sass") \/ Has(deps, "node-sass") THEN "Sass/SCSS"
    ELSE "null"

databaseOf(deps) ==
    IF Has(deps, "@supabase/supabase-js") THEN "Supabase"
    ELSE IF Has(deps, "firebase") THEN "Firebase"
    ELSE IF Has(deps, "@prisma/client") THEN "Prisma"
    ELSE IF Has(deps, "drizzle-orm") THEN "Drizzle"
    ELSE IF Has(deps, "mongoose") THEN "MongoDB (Mongoose)"
    ELSE "null"

testingOf(deps) ==
    IF Has(deps, "vitest") THEN "Vitest"
    ELSE IF Has(deps, "jest") THEN "Jest"
    ELSE IF Has(deps, "@playwright/test") THEN "Playwright"
    ELSE IF Has(deps, "cypress") THEN "Cypress"
    ELSE "null"

lintingOf(deps) ==
    IF Has(deps, "eslint")
    THEN (IF Has(deps, "prettier") THEN "ESLint + Prettier" ELSE "ESLint")
    ELSE IF Has(deps, "biome") \/ Has(deps, "@biomejs/biome") THEN "Biome"
    ELSE "null"

buildToolOf(deps) ==
    IF Has(deps, "turbo") \/ Has(deps, "@turbo/gen") THEN "Turborepo"
    ELSE IF Has(deps, "nx") THEN "Nx"
    ELSE IF Has(deps, "vite") THEN "Vite"
    ELSE IF Has(deps, "webpack") THEN "Webpack"
    ELSE "null"

\* the independent feature checks of lines 446-481, in source order: the
\* dependency names of each check and the tag it pushes
FeatureRules ==
    << [deps |-> {"@google/generative-ai"}, tag |-> "Google Gemini AI"],
       [deps |-> {"openai"}, tag |-> "OpenAI API"],
       [deps |-> {"@anthropic-ai/sdk"}, tag |-> "Anthropic Claude"],
       [deps |-> {"storybook", "@storybook/react"}, tag |-> "Storybook"],
       [deps |-> {"three", "@react-three/fiber"}, tag |-> "Three.js/R3F"],
       [deps |-> {"framer-motion"}, tag |-> "Framer Motion"],
       [deps |-> {"react-query", "@tanstack/react-query"}, tag |-> "TanStack Query"],
       [deps |-> {"zustand"}, tag |-> "Zustand"],
       [deps |-> {"jotai"}, tag |-> "Jotai"],
       [deps |-> {"redux", "@reduxjs/toolkit"}, tag |-> "Redux"],
       [deps |-> {"zod"}, tag |-> "Zod validation"],
       [deps |-> {"react-hook-form"}, tag |-> "React Hook Form"] >>

\* lines 445-481: one push for each check whose condition holds
RECURSIVE FeaturesFrom(_, _, _)
FeaturesFrom(features, deps, i) ==
    IF i > Len(FeatureRules) THEN features
    ELSE FeaturesFrom(IF \E n \in FeatureRules[i].deps : Has(deps, n)
                      THEN Append(features, FeatureRules[i].tag)
                      ELSE features,
                      deps, i + 1)

AdditionalFeatures(deps) == FeaturesFrom(<<>>, deps, 1)

\* lines 374-380: deps['react'].includes('19') || .includes('canary');
\* a value without an includes method raises a TypeError
ReactIncludesThrows(deps) == Has(deps, "react") /\ Dep(deps, "react").t # "str"

IsReact19(deps) ==
    /\ Has(deps, "react")
    /\ Dep(deps, "react").t = "str"
    /\ (Includes(Dep(deps, "react").s, "19")
          \/ Includes(Dep(deps, "react").s, "canary"))

\* the try block, lines 346-487: the analysis as far as it was filled in and
\* whether an exception left the block
TryBlock(pkgF, analysis) ==
    IF pkgF.kind \in {"invalid", "null"}
    THEN \* JSON.parse raises, or pkg.dependencies is read from null
         [threw |-> TRUE, analysis |-> analysis]
    ELSE
    LET deps == SpreadDeps(pkgF.dependencies, pkgF.devDependencies)
        a1 == [analysis EXCEPT
                 !.name = pkgF.name, !.version = pkgF.version,
                 !.type = IF pkgF.type = "undefined" THEN "commonjs" ELSE pkgF.type,
                 !.scripts = pkgF.scripts,
                 !.framework = frameworkOf(deps),
                 !.keyDependencies =
                     (IF Has(deps, "next") THEN <<KeyDep(deps, "next")>> ELSE <<>>)
                       \o (IF Has(deps, "react") THEN <<KeyDep(deps, "react")>> ELSE <<>>)]
        monorepo == Has(deps, "turbo") \/ Has(deps, "@turbo/gen") \/ Has(deps, "nx")
        a2 == [a1 EXCEPT
                 !.features =
                     (IF IsReact19(deps) THEN <<"React 19">> ELSE <<>>)
                       \o (IF monorepo THEN <<"Monorepo">> ELSE <<>>)
                       \o AdditionalFeatures(deps)
                       \o (IF Has(deps, "typescript") THEN <<"TypeScript">> ELSE <<>>),
                 !.styling = stylingOf(deps),
                 !.database = databaseOf(deps),
                 !.testing = testingOf(deps),
                 !.linting = lintingOf(deps),
                 !.buildTool = buildToolOf(deps),
                 !.keyDependencies =
                     @ \o (IF Has(deps, "tailwindcss")
                           THEN <<KeyDep(deps, "tailwindcss")>>
                           ELSE IF Has(deps, "@mui/material")
                           THEN <<KeyDep(deps, "@mui/material")>> ELSE <<>>)
                       \o (IF Has(deps, "@supabase/supabase-js")
                           THEN <<KeyDep(deps, "@supabase/supabase-js")>> ELSE <<>>)
                       \o (IF Has(deps, "typescript")
                           THEN <<KeyDep(deps, "typescript")>> ELSE <<>>)]
    IN  IF ReactIncludesThrows(deps)
        THEN [threw |-> TRUE, analysis |-> a1]
        ELSE [threw |-> FALSE, analysis |-> a2]

\* the function without its try / catch: the exception reaches the caller
analyzePackageJson_NoCatch(pkgF) ==
    IF pkgF.kind = "absent"
    THEN [raised |-> FALSE, warned |-> FALSE, analysis |-> EmptyAnalysis]
    ELSE LET r == TryBlock(pkgF, EmptyAnalysis)
         IN  [raised |-> r.threw, warned |-> FALSE, analysis |-> r.analysis]

\* analyzePackageJson: raised tells whether an exception reaches the
\* caller, warned whether the catch block logged its warning
analyzePackageJson(pkgF) ==
    IF pkgF.kind = "absent"
    THEN [raised |-> FALSE, warned |-> FALSE, analysis |-> EmptyAnalysis]
    ELSE LET r == TryBlock(pkgF, EmptyAnalysis)
         IN  [raised |-> FALSE, warned |-> r.threw, analysis |-> r.analysis]

(***************************************************************************)
(* String.toLowerCase and String.split(' ')[0]                             *)
(***************************************************************************)
UpperAlphabet == "ABCDEFGHIJKLMNOPQRSTUVWXYZ"

LowerAlphabet == "abcdefghijklmnopqrstuvwxyz"

LowerChar(c) ==
    IF c \in UpperChars
    THEN CharAt(LowerAlphabet,
                CHOOSE i \in 1..Len(UpperAlphabet) : CharAt(UpperAlphabet, i) = c)
    ELSE c

RECURSIVE toLowerCase(_)
toLowerCase(s) ==
    IF Len(s) = 0 THEN s
    ELSE LowerChar(CharAt(s, 1)) \o toLowerCase(SubSeq(s, 2, Len(s)))

\* s.split(' ')[0]
FirstWord(s) ==
    LET spaces == {i \in 1..Len(s) : CharAt(s, i) = " "}
    IN  IF spaces = {} THEN s
        ELSE SubSeq(s, 1, (CHOOSE i \in spaces : \A j \in spaces : i <= j) - 1)

(***************************************************************************)
(* The persisted configuration .agents-project.json.  kind is absent (no   *)
(* file), invalid (not JSON), null or object; agents is undefined, an      *)
(* array of names or a number; project is undefined or an object whose     *)
(* framework is a string or undefined.                                     *)
(***************************************************************************)
AGENTS ==
    [copilot |-> [name |-> "GitHub Copilot",
                  file |-> ".github/copilot-instructions.md"],
     claude |-> [name |-> "Claude (Anthropic)", file |-> "CLAUDE.md"],
     cursor |-> [name |-> "Cursor", file |-> ".cursorrules"],
     gemini |-> [name |-> "Gemini (Google)", file |-> ".gemini/config.md"],
     codex |-> [name |-> "Codex (OpenAI)", file |-> ".codex/AGENTS.md"],
     windsurf |-> [name |-> "Windsurf/Codeium", file |-> ".windsurfrules"]]

\* the order of Object.entries(AGENTS)
AgentKeys == <<"copilot", "claude", "cursor", "gemini", "codex", "windsurf">>

\* properties every object literal inherits from Object.prototype, with
\* the name property of the inherited value
ObjectPrototype ==
    [constructor |-> "Object", toString |-> "toString",
     valueOf |-> "valueOf", hasOwnProperty |-> "hasOwnProperty"]

UndefinedAgents == [t |-> "undefined", v |-> <<>>]

ArrayOfAgents(names) == [t |-> "array", v |-> names]

NumberAgents == [t |-> "number", v |-> <<>>]

UndefinedProject == [t |-> "undefined", framework |-> "undefined"]

ProjectObject(fw) == [t |-> "object", framework |-> fw]

NonObjectConfig(k) ==
    [kind |-> k, version |-> "undefined", agents |-> UndefinedAgents,
     project |-> UndefinedProject]

ObjectConfig(ver, ags, proj) ==
    [kind |-> "object", version |-> ver, agents |-> ags, project |-> proj]

NullConfig == NonObjectConfig("null")

\* returns null when the file is missing or is not JSON
loadProjectConfig(cfgF) ==
    IF cfgF.kind = "absent" THEN [warned |-> FALSE, config |-> NullConfig]
    ELSE IF cfgF.kind = "invalid"
    THEN [warned |-> TRUE, config |-> NullConfig]
    ELSE [warned |-> FALSE, config |-> cfgF]

\* the keys of the configs object: the agents whose adapter file exists
detectAgentConfigs(fsT, dir) ==
    {AgentKeys[i] : i \in
        {j \in 1..Len(AgentKeys) :
            existsSync(fsT, join(dir, AGENTS[AgentKeys[j]].file))}}

(***************************************************************************)
(* verifyConfiguration.  The result holds the three lists, and threw when  *)
(* the call ends by an exception.  The backquotes of the messages are      *)
(* written as apostrophes.                                                 *)
(***************************************************************************)
CurrentVersion == "1.1.0"

NoVerification ==
    [threw |-> FALSE, issues |-> <<>>, warnings |-> <<>>, successes |-> <<>>]

\* analysis.agentConfigs[agent] is truthy
HasAgentConfig(configs, agent) ==
    agent \in configs \/ agent \in DOMAIN ObjectPrototype

\* AGENTS[agent].name, read when agentConfigs[agent] is truthy
AgentLabel(agent) ==
    IF agent \in DOMAIN AGENTS THEN AGENTS[agent].name
    ELSE ObjectPrototype[agent]

AgentWarning(agent) ==
    "Agent '" \o agent \o "' listed in config but no config file found"

AgentSuccess(agent) == AgentLabel(agent) \o " config file exists"

\* if (!analysis.projectConfig) ... else ...
CheckProjectConfig(v, config) ==
    IF config.kind = "null"
    THEN [v EXCEPT !.issues = Append(@,
             "Missing .agents-project.json - run 'npx agents-init' first")]
    ELSE LET w == [v EXCEPT !.successes =
                       Append(@, ".agents-project.json exists")]
         IN  IF config.version # CurrentVersion
             THEN [w EXCEPT !.warnings = Append(@,
                      "Config version " \o config.version
                      \o " - consider running agents-init to update")]
             ELSE w

\* if (!fs.existsSync(agentsDir)) ... else ...
CheckAgentsDir(v, fsT, dir) ==
    LET agentsDir == join(dir, ".agents")
    IN  IF ~existsSync(fsT, agentsDir)
        THEN [v EXCEPT !.issues = Append(@,
                 "Missing .agents/ folder - run 'npx agents-init' first")]
        ELSE LET w == [v EXCEPT !.successes =
                           Append(@, ".agents/ folder exists")]
             IN  IF ~existsSync(fsT, join(agentsDir, "AGENTS.md"))
                 THEN [w EXCEPT !.issues =
                          Append(@, "Missing .agents/AGENTS.md")]
                 ELSE [w EXCEPT !.successes =
                          Append(@, ".agents/AGENTS.md exists")]

RECURSIVE CheckAgentsFrom(_, _, _, _)
\* the for loop over analysis.projectConfig.agents from entry i on
CheckAgentsFrom(v, agents, configs, i) ==
    IF i > Len(agents) THEN v
    ELSE CheckAgentsFrom(
             IF ~HasAgentConfig(configs, agents[i])
             THEN [v EXCEPT !.warnings = Append(@, AgentWarning(agents[i]))]
             ELSE [v EXCEPT !.successes = Append(@, AgentSuccess(agents[i]))],
             agents, configs, i + 1)

\* if (analysis.projectConfig?.agents) { for (const agent of ...) }
\* a number is truthy and not iterable: the for statement throws
CheckAgents(v, config, configs) ==
    IF config.kind = "null" \/ config.agents.t = "undefined" THEN v
    ELSE IF config.agents.t = "number" THEN [v EXCEPT !.threw = TRUE]
    ELSE CheckAgentsFrom(v, config.agents.v, configs, 1)

\* a check that reports nothing when the file is there
CheckProjectContext_Silent(v, fsT, dir) ==
    IF ~existsSync(fsT, join(join(dir, ".agents"), "PROJECT-CONTEXT.md"))
    THEN [v EXCEPT !.warnings = Append(@,
             "Missing .agents/PROJECT-CONTEXT.md - run 'npx agents-analyze' to generate")]
    ELSE v

\* if (!fs.existsSync(contextPath)) ... else ...
CheckProjectContext(v, fsT, dir) ==
    IF ~existsSync(fsT, join(join(dir, ".agents"), "PROJECT-CONTEXT.md"))
    THEN [v EXCEPT !.warnings = Append(@,
             "Missing .agents/PROJECT-CONTEXT.md - run 'npx agents-analyze' to generate")]
    ELSE [v EXCEPT !.successes = Append(@, ".agents/PROJECT-CONTEXT.md exists")]

\* analysis.packageJson.framework?.toLowerCase().split(' ')[0]
DetectedFramework(pkgJson) ==
    IF pkgJson.framework = "null" THEN "undefined"
    ELSE FirstWord(toLowerCase(pkgJson.framework))

FrameworkWarning(configFramework, detectedFramework) ==
    "Framework mismatch: config says '" \o configFramework
    \o "' but detected '" \o detectedFramework \o "'"

\* if (analysis.projectConfig?.project) { ... }
CheckFramework(v, config, pkgJson) ==
    IF config.kind = "null" \/ config.project.t = "undefined" THEN v
    ELSE LET configFramework == config.project.framework
             detectedFramework == DetectedFramework(pkgJson)
         IN  IF /\ configFramework \notin {"undefined", ""}
                /\ detectedFramework \notin {"undefined", ""}
                /\ ~Includes(detectedFramework, configFramework)
             THEN [v EXCEPT !.warnings = Append(@,
                      FrameworkWarning(configFramework, detectedFramework))]
             ELSE v

verifyConfiguration(fsT, dir, config, configs, pkgJson) ==
    LET v1 == CheckProjectConfig(NoVerification, config)
        v2 == CheckAgentsDir(v1, fsT, dir)
        v3 == CheckAgents(v2, config, configs)
    IN  IF v3.threw THEN v3
        ELSE CheckFramework(CheckProjectContext(v3, fsT, dir), config,
                            pkgJson)

(***************************************************************************)
(* main() after the analyses: the exit status of the verify mode, the      *)
(* confirmation prompt and the files that are written.                     *)
(***************************************************************************)
\* a verify mode that fails on warnings too
VerifyExitStatus_Strict(v) ==
    IF Len(v.issues) > 0 \/ Len(v.warnings) > 0
    THEN 1 ELSE 0

\* if (v.issues.length > 0) process.exit(1); ... process.exit(0)
VerifyExitStatus(v) ==
    IF Len(v.issues) > 0 THEN 1 ELSE 0

\* a prompt that takes every answer but n as consent
confirm_Lenient(ans) == toLowerCase(ans) # "n"

\* answer.toLowerCase() === 'y' || answer.toLowerCase() === 'yes'
confirm(ans) ==
    toLowerCase(ans) = "y" \/ toLowerCase(ans) = "yes"

\* fs.mkdirSync(dir, { recursive: true }) of a directory below the root
mkdirSync(fsT, dir) ==
    LET parent == dirname(dir)
    IN  [p \in DOMAIN fsT \cup {dir} |->
            IF p = dir THEN DirNode(<<>>, TRUE)
            ELSE IF p = parent
            THEN [fsT[p] EXCEPT !.entries = Append(@, basename(dir))]
            ELSE fsT[p]]

\* fs.writeFileSync(path, content, 'utf8')
writeFileSync(fsT, path) ==
    LET parent == dirname(path)
    IN  IF path \in DOMAIN fsT THEN fsT
        ELSE [p \in DOMAIN fsT \cup {path} |->
                 IF p = path THEN FileNode
                 ELSE IF p = parent
                 THEN [fsT[p] EXCEPT !.entries = Append(@, basename(path))]
                 ELSE fsT[p]]

\* the two files main() generates
FilesToCreate(dir) ==
    <<join(join(dir, ".agents"), "ANALYSIS.md"),
      join(join(dir, ".agents"), "PROJECT-CONTEXT.md")>>

\* the loop that writes filesToCreate
WriteFiles(fsT, dir) ==
    LET agentsDir == join(dir, ".agents")
        made == IF existsSync(fsT, agentsDir) THEN fsT
                ELSE mkdirSync(fsT, agentsDir)
    IN  writeFileSync(writeFileSync(made, FilesToCreate(dir)[1]),
                      FilesToCreate(dir)[2])

(***************************************************************************)
(* analyzeTypeScriptConfig, analyzeReadme and detectKeyFiles.  A           *)
(* tsconfig.json is absent, invalid (JSON.parse raises on the text left by *)
(* the comment stripping) or an object with compilerOptions; paths is the  *)
(* sequence of its entries in the order of Object.entries.  A README.md is *)
(* the sequence of its lines.  t = "null" marks the JS value null.         *)
(***************************************************************************)
NullTargets == [t |-> "null", v |-> <<>>]

ArrayTargets(v) == [t |-> "array", v |-> v]

AbsentTsFile ==
    [kind |-> "absent", strict |-> FALSE, baseUrl |-> "undefined",
     paths |-> <<>>]

InvalidTsFile == [AbsentTsFile EXCEPT !.kind = "invalid"]

ObjectTsFile(strict, baseUrl, paths) ==
    [kind |-> "object", strict |-> strict, baseUrl |-> baseUrl,
     paths |-> paths]

NullTsconfig ==
    [t |-> "null", strict |-> FALSE, baseUrl |-> "null", paths |-> <<>>]

\* the analysis object of lines 500-506
DefaultTsconfig == [NullTsconfig EXCEPT !.t = "object"]

analyzeTypeScriptConfig(tsF) ==
    IF tsF.kind = "absent" THEN NullTsconfig
    ELSE IF tsF.kind = "invalid" THEN DefaultTsconfig
    ELSE [t |-> "object", strict |-> tsF.strict, baseUrl |-> tsF.baseUrl,
          paths |-> tsF.paths]

AbsentReadme == [kind |-> "absent", lines |-> <<>>]

ReadmeOf(lines) == [kind |-> "present", lines |-> lines]

NullReadme ==
    [t |-> "null", title |-> "null", description |-> "null", length |-> 0]

IsSpace(c) == c \in {" ", "\t"}

\* the first index of s from i on that holds no white space, Len(s) + 1
\* when there is none
RECURSIVE SkipSpace(_, _)
SkipSpace(s, i) ==
    IF i > Len(s) \/ ~IsSpace(CharAt(s, i)) THEN i ELSE SkipSpace(s, i + 1)

RECURSIVE SkipSpaceBack(_, _)
SkipSpaceBack(s, i) ==
    IF i < 1 \/ ~IsSpace(CharAt(s, i)) THEN i ELSE SkipSpaceBack(s, i - 1)

\* String.prototype.trim
trim(s) == SubSeq(s, SkipSpace(s, 1), SkipSpaceBack(s, Len(s)))

\* /^#\s+(.+)$/m on one line: a '#', white space, and at least one more
\* character; the group is what follows the first white space
TitleMatches(line) ==
    /\ Len(line) >= 3
    /\ CharAt(line, 1) = "#"
    /\ IsSpace(CharAt(line, 2))

TitleGroup(line) ==
    LET i == SkipSpace(line, 2)
    IN  IF i > Len(line) THEN SubSeq(line, Len(line), Len(line))
        ELSE SubSeq(line, i, Len(line))

\* the prefix of s that holds no '#'
RECURSIVE UpToHash(_, _)
UpToHash(s, i) ==
    IF i > Len(s) \/ CharAt(s, i) = "#" THEN SubSeq(s, 1, i - 1)
    ELSE UpToHash(s, i + 1)

\* /^#.+\n\n([^\n#]+)/m at line i: a heading, an empty line, and a line
\* that does not start with '#'
DescMatches(lines, i) ==
    /\ i + 2 <= Len(lines)
    /\ Len(lines[i]) >= 2
    /\ CharAt(lines[i], 1) = "#"
    /\ lines[i + 1] = ""
    /\ UpToHash(lines[i + 2], 1) # ""

\* content.length of the lines joined by line feeds
RECURSIVE ContentLength(_, _)
ContentLength(lines, i) ==
    IF i > Len(lines) THEN 0
    ELSE Len(lines[i]) + (IF i < Len(lines) THEN 1 ELSE 0)
           + ContentLength(lines, i + 1)

analyzeReadme(readmeF) ==
    IF readmeF.kind = "absent" THEN NullReadme
    ELSE
    LET lines == readmeF.lines
        titles == {i \in 1..Len(lines) : TitleMatches(lines[i])}
        descs == {i \in 1..Len(lines) : DescMatches(lines, i)}
        first(S) == CHOOSE i \in S : \A j \in S : i <= j
    IN  [t |-> "object",
         title |-> IF titles = {} THEN "null"
                   ELSE TitleGroup(lines[first(titles)]),
         description |-> IF descs = {} THEN "null"
                         ELSE trim(UpToHash(lines[first(descs) + 2], 1)),
         length |-> ContentLength(lines, 1)]

\* a presence map that reads the first name of each key only
detectKeyFiles_FirstNameOnly(fsT, dir) ==
    LET has(name) == existsSync(fsT, join(dir, name))
    IN  [readme |-> has("README.md"),
         contributing |-> has("CONTRIBUTING.md"),
         license |-> has("LICENSE"),
         changelog |-> has("CHANGELOG.md"),
         envExample |-> has(".env.example"),
         docker |-> has("Dockerfile"),
         cicd |-> has(".github/workflows"),
         husky |-> has(".husky"),
         editorconfig |-> has(".editorconfig"),
         nvmrc |-> has(".nvmrc")]

detectKeyFiles(fsT, dir) ==
    LET has(name) == existsSync(fsT, join(dir, name))
    IN  [readme |-> has("README.md"),
         contributing |-> has("CONTRIBUTING.md"),
         license |-> has("LICENSE"),
         changelog |-> has("CHANGELOG.md"),
         envExample |-> has(".env.example") \/ has(".env.local.example"),
         docker |-> has("Dockerfile") \/ has("docker-compose.yml"),
         cicd |-> has(".github/workflows"),
         husky |-> has(".husky"),
         editorconfig |-> has(".editorconfig"),
         nvmrc |-> has(".nvmrc")]

\* the map of a root that holds none of the names
NoKeyFiles == detectKeyFiles([p \in {} |-> FileNode], "")

(***************************************************************************)
(* generateAnalysisReport and generateProjectContext.  A report is the     *)
(* sequence of the lines the code joins with line feeds; no line holds a   *)
(* line feed.  The result of a renderer holds threw, the lines, and the    *)
(* analysis object as the call leaves it.  The backquotes of the texts are *)
(* written as apostrophes, the check mark and cross as [x] and [ ], the    *)
(* arrow as ->.                                                            *)
(***************************************************************************)
\* ToBoolean of a string field that may be null or undefined
JsTruthy(s) == s \notin {"null", "undefined", ""}

\* if (cond) lines.push(line)
Opt(cond, line) == IF cond THEN <<line>> ELSE <<>>

\* for (const x of items) lines.push(`- ${x}`)
Bullets(items) == [i \in 1..Len(items) |-> "- " \o items[i]]

\* Array.prototype.join
RECURSIVE Join(_, _)
Join(items, sep) ==
    IF Len(items) = 0 THEN ""
    ELSE IF Len(items) = 1 THEN items[1]
    ELSE items[1] \o sep \o Join(Tail(items), sep)

\* s.split('/')[0]
FirstSegment(s) ==
    LET S == {i \in 1..Len(s) : CharAt(s, i) = "/"}
    IN  IF S = {} THEN s
        ELSE SubSeq(s, 1, (CHOOSE i \in S : \A j \in S : i <= j) - 1)

\* the subsequence of the labels whose bucket is not empty
NonEmptyBuckets(cats, labels) ==
    SelectSeq(labels, LAMBDA l : Len(cats[l]) > 0)

\* analysis.tsconfig?.paths && Object.keys(analysis.tsconfig.paths).length > 0
HasPathAliases(tsc) == tsc.t # "null" /\ Len(tsc.paths) > 0

ReportHeader(date) ==
    <<"# Project Analysis Report", "",
      "> Generated by 'npx agents-analyze' on " \o date, "">>

ProjectOverview(analysis) ==
    <<"## Project Overview", "">>
      \o Opt(JsTruthy(analysis.packageJson.name),
             "**Name:** " \o analysis.packageJson.name)
      \o Opt(JsTruthy(analysis.readme.description),
             "**Description:** " \o analysis.readme.description)
      \o Opt(JsTruthy(analysis.packageJson.framework),
             "**Framework:** " \o analysis.packageJson.framework)
      \o Opt(JsTruthy(analysis.packageJson.styling),
             "**Styling:** " \o analysis.packageJson.styling)
      \o Opt(JsTruthy(analysis.packageJson.database),
             "**Database:** " \o analysis.packageJson.database)
      \o <<"">>

TechStack(analysis) ==
    LET deps == analysis.packageJson.keyDependencies
        features == analysis.packageJson.features
    IN  <<"## Tech Stack", "">>
          \o (IF Len(deps) > 0
              THEN <<"### Key Dependencies">> \o Bullets(deps) \o <<"">>
              ELSE <<>>)
          \o (IF Len(features) > 0
              THEN <<"### Features">> \o Bullets(features) \o <<"">>
              ELSE <<>>)

ProjectStructure(analysis) ==
    LET cats == NonEmptyBuckets(analysis.categories, Labels)
    IN  <<"## Project Structure", "",
          "- **Total Files:** " \o ToString(analysis.fileStructure.totalFiles),
          "- **Total Directories:** "
              \o ToString(analysis.fileStructure.totalDirs),
          "",
          "### File Distribution", "",
          "| Category | Count |", "|----------|-------|">>
          \o [i \in 1..Len(cats) |->
                "| " \o cats[i] \o " | "
                  \o ToString(Len(analysis.categories[cats[i]])) \o " |"]
          \o <<"">>

CodingConventions(analysis) ==
    LET c == analysis.conventions
    IN  <<"## Coding Conventions", "">>
          \o Opt(JsTruthy(c.componentStyle),
                 "- **Component Naming:** " \o c.componentStyle)
          \o Opt(JsTruthy(c.fileExtension),
                 "- **File Extension:** " \o c.fileExtension)
          \o Opt(JsTruthy(c.testNaming), "- **Test Naming:** " \o c.testNaming)
          \o Opt(c.indexFiles, "- **Index Files:** Uses index.ts/js for exports")
          \o Opt(c.barrelExports,
                 "- **Barrel Exports:** Uses barrel pattern extensively")
          \o <<"">>

\* paths[0] of an alias entry: reading [0] of null raises a TypeError
AliasThrows(tsc) ==
    /\ tsc.t # "null"
    /\ \E i \in 1..Len(tsc.paths) : tsc.paths[i].targets.t = "null"

AliasTarget(entry) ==
    IF Len(entry.targets.v) = 0 THEN "undefined" ELSE entry.targets.v[1]

TypeScriptConfiguration(analysis) ==
    LET tsc == analysis.tsconfig
    IN  IF tsc.t = "null" THEN <<>>
        ELSE <<"## TypeScript Configuration", "",
               "- **Strict Mode:** " \o (IF tsc.strict THEN "Yes" ELSE "No")>>
               \o Opt(JsTruthy(tsc.baseUrl), "- **Base URL:** " \o tsc.baseUrl)
               \o (IF Len(tsc.paths) > 0
                   THEN <<"- **Path Aliases:**">>
                          \o [i \in 1..Len(tsc.paths) |->
                                "  - '" \o tsc.paths[i].alias \o "' -> '"
                                  \o AliasTarget(tsc.paths[i]) \o "'"]
                   ELSE <<>>)
               \o <<"">>

\* Object.entries(keyFileLabels)
keyFileLabels ==
    << <<"readme", "README.md">>, <<"contributing", "CONTRIBUTING.md">>,
       <<"license", "LICENSE">>, <<"changelog", "CHANGELOG.md">>,
       <<"envExample", "Environment example">>,
       <<"docker", "Docker support">>, <<"cicd", "GitHub Actions CI/CD">>,
       <<"husky", "Git hooks (Husky)">>, <<"editorconfig", "EditorConfig">>,
       <<"nvmrc", ".nvmrc (Node version)">> >>

ProjectSetup(analysis) ==
    <<"## Project Setup", "">>
      \o [i \in 1..Len(keyFileLabels) |->
            "- " \o (IF analysis.keyFiles[keyFileLabels[i][1]]
                     THEN "[x]" ELSE "[ ]")
              \o " " \o keyFileLabels[i][2]]
      \o <<"">>

\* the adapter files of the model are empty: (0 / 1024).toFixed(1)
RECURSIVE AgentSections(_, _)
AgentSections(configs, i) ==
    IF i > Len(AgentKeys) THEN <<>>
    ELSE (IF AgentKeys[i] \in configs
          THEN <<"### " \o AGENTS[AgentKeys[i]].name,
                 "- **File:** '" \o AGENTS[AgentKeys[i]].file \o "'",
                 "- **Size:** 0.0 KB", "">>
          ELSE <<>>)
         \o AgentSections(configs, i + 1)

AgentConfigurations(analysis) ==
    IF analysis.agentConfigs = {} THEN <<>>
    ELSE <<"## Agent Configurations", "">>
           \o AgentSections(analysis.agentConfigs, 1)

NoRecommendations == "- No specific recommendations at this time."

\* a list that lacks the rule of the api bucket
Recommendations_NoApiRule(analysis) ==
    Opt(JsTruthy(analysis.packageJson.framework),
        "- Framework-specific patterns for " \o analysis.packageJson.framework)
    \o Opt(JsTruthy(analysis.packageJson.styling),
           "- " \o analysis.packageJson.styling
             \o " component patterns and class naming")
    \o Opt(HasPathAliases(analysis.tsconfig),
           "- Import alias patterns (e.g., '@/components/...')")
    \o Opt(JsTruthy(analysis.conventions.componentStyle),
           "- " \o analysis.conventions.componentStyle
             \o " naming convention for components")
    \o Opt(JsTruthy(analysis.packageJson.testing),
           "- Testing patterns using " \o analysis.packageJson.testing)

\* the array recommendations of lines 762-781
Recommendations(analysis) ==
    Opt(JsTruthy(analysis.packageJson.framework),
        "- Framework-specific patterns for " \o analysis.packageJson.framework)
    \o Opt(JsTruthy(analysis.packageJson.styling),
           "- " \o analysis.packageJson.styling
             \o " component patterns and class naming")
    \o Opt(HasPathAliases(analysis.tsconfig),
           "- Import alias patterns (e.g., '@/components/...')")
    \o Opt(JsTruthy(analysis.conventions.componentStyle),
           "- " \o analysis.conventions.componentStyle
             \o " naming convention for components")
    \o Opt(Len(analysis.categories["api"]) > 0,
           "- API route patterns and data fetching conventions")
    \o Opt(JsTruthy(analysis.packageJson.testing),
           "- Testing patterns using " \o analysis.packageJson.testing)

RecommendationsSection(analysis) ==
    LET recommendations == Recommendations(analysis)
    IN  <<"## Recommendations", "",
          "Based on this analysis, consider updating your agent configurations with:",
          "">>
          \o recommendations
          \o Opt(Len(recommendations) = 0, NoRecommendations)
          \o <<"", "---", "",
               "*Run 'npx agents-analyze' again after making changes to update this report.*">>

generateAnalysisReport(analysis, date) ==
    IF AliasThrows(analysis.tsconfig)
    THEN [threw |-> TRUE, lines |-> <<>>, analysis |-> analysis]
    ELSE [threw |-> FALSE,
          lines |-> ReportHeader(date) \o ProjectOverview(analysis)
                      \o TechStack(analysis) \o ProjectStructure(analysis)
                      \o CodingConventions(analysis)
                      \o TypeScriptConfiguration(analysis)
                      \o ProjectSetup(analysis)
                      \o AgentConfigurations(analysis)
                      \o RecommendationsSection(analysis),
          analysis |-> analysis]

ContextHeader ==
    <<"# Project Context", "",
      "> **This file provides project-specific context for AI coding assistants.**",
      "> Auto-generated by 'npx agents-analyze'. Edit as needed.",
      ">",
      "> This file **extends** the general guidelines in [AGENTS.md](./AGENTS.md).",
      "> Project-specific patterns here override generic rules when they conflict.",
      "">>

ProjectIdentity(analysis) ==
    <<"## Project Identity", "">>
      \o Opt(JsTruthy(analysis.packageJson.name),
             "- **Name:** " \o analysis.packageJson.name)
      \o Opt(JsTruthy(analysis.readme.description),
             "- **Purpose:** " \o analysis.readme.description)
      \o <<"">>

\* the pushes of lines 827-831
StackPushes(pj) ==
    Opt(JsTruthy(pj.framework), pj.framework)
    \o Opt(JsTruthy(pj.styling), pj.styling)
    \o Opt(JsTruthy(pj.database), pj.database)
    \o Opt(JsTruthy(pj.testing), pj.testing)
    \o Opt("TypeScript" \in {pj.features[i] : i \in 1..Len(pj.features)},
           "TypeScript")

\* a stack that is the features array itself: the pushes extend it
StackOf_SharedArray(pj) ==
    [stack |-> pj.features \o StackPushes(pj),
     features |-> pj.features \o StackPushes(pj)]

\* const stack = []; the array the pushes fill, and features after them
StackOf(pj) == [stack |-> StackPushes(pj), features |-> pj.features]

TechnologyStack(stack, features) ==
    <<"## Technology Stack", "", Join(stack, " + "), "">>
      \o (IF Len(features) > 0
          THEN <<"### Additional Libraries">> \o Bullets(features) \o <<"">>
          ELSE <<>>)

FileCount(cats, l) == ToString(Len(cats[l])) \o " files"

\* a section with a bullet for the first two buckets only
FileOrganization_TwoBullets(cats) ==
    <<"## File Organization", "">>
      \o Opt(Len(cats["components"]) > 0,
             "- **Components:** '" \o FirstSegment(cats["components"][1])
               \o "/' (" \o FileCount(cats, "components") \o ")")
      \o Opt(Len(cats["pages"]) > 0,
             "- **Pages/Routes:** '" \o FirstSegment(cats["pages"][1])
               \o "/' (" \o FileCount(cats, "pages") \o ")")
      \o <<"">>

FileOrganization(cats) ==
    <<"## File Organization", "">>
      \o Opt(Len(cats["components"]) > 0,
             "- **Components:** '" \o FirstSegment(cats["components"][1])
               \o "/' (" \o FileCount(cats, "components") \o ")")
      \o Opt(Len(cats["pages"]) > 0,
             "- **Pages/Routes:** '" \o FirstSegment(cats["pages"][1])
               \o "/' (" \o FileCount(cats, "pages") \o ")")
      \o Opt(Len(cats["api"]) > 0, "- **API Routes:** " \o FileCount(cats, "api"))
      \o Opt(Len(cats["hooks"]) > 0,
             "- **Custom Hooks:** " \o FileCount(cats, "hooks"))
      \o Opt(Len(cats["utils"]) > 0,
             "- **Utilities:** " \o FileCount(cats, "utils"))
      \o <<"">>

\* x || fallback
OrElse(x, fallback) == IF JsTruthy(x) THEN x ELSE fallback

CodingStandards(analysis) ==
    LET c == analysis.conventions
    IN  <<"## Coding Standards", "",
          "- **Component naming:** " \o OrElse(c.componentStyle, "PascalCase"),
          "- **File extension:** " \o OrElse(c.fileExtension, ".tsx"),
          "- **Test files:** " \o OrElse(c.testNaming, ".test.")>>
          \o Opt(analysis.tsconfig.t # "null" /\ analysis.tsconfig.strict,
                 "- **TypeScript:** Strict mode enabled")
          \o Opt(HasPathAliases(analysis.tsconfig),
                 "- **Import aliases:** Use '@/' prefix for src imports")
          \o <<"">>

importantScripts == <<"dev", "build", "start", "test", "lint", "format">>

\* the command every manifest of the model gives script s
ScriptCommand(s) == "run-" \o s

AvailableScripts(analysis) ==
    LET scripts == analysis.packageJson.scripts
        present == SelectSeq(importantScripts, LAMBDA s : s \in scripts)
    IN  IF scripts = {} THEN <<>>
        ELSE <<"## Available Scripts", "">>
               \o [i \in 1..Len(present) |->
                     "- 'npm run " \o present[i] \o "' - "
                       \o ScriptCommand(present[i])]
               \o <<"">>

ProjectSpecificPatterns ==
    <<"## Project-Specific Patterns", "",
      "<!-- Add project-specific patterns, conventions, and notes below -->",
      "",
      "- [ ] TODO: Document component composition patterns",
      "- [ ] TODO: Document state management approach",
      "- [ ] TODO: Document API/data fetching patterns",
      "- [ ] TODO: Document error handling conventions",
      "">>

generateProjectContext(analysis) ==
    LET s == StackOf(analysis.packageJson)
        after == [analysis EXCEPT !.packageJson.features = s.features]
    IN  [threw |-> FALSE,
         lines |-> ContextHeader \o ProjectIdentity(after)
                     \o TechnologyStack(s.stack, s.features)
                     \o FileOrganization(after.categories)
                     \o CodingStandards(after) \o AvailableScripts(after)
                     \o ProjectSpecificPatterns,
         analysis |-> after]

\* the analysis object main() hands to the renderers
AnalysisOf(fs_, cats, conv, pj, ts, projCfg, agentCfgs, rd, kf) ==
    [fileStructure |-> fs_, categories |-> cats,
     conventions |-> conv, packageJson |-> pj,
     tsconfig |-> ts, projectConfig |-> projCfg,
     agentConfigs |-> agentCfgs, readme |-> rd,
     keyFiles |-> kf]

\* the variables of the renderers before the analyses ran
ReportIdle ==
    /\ tsFile = AbsentTsFile
    /\ readmeFile = AbsentReadme
    /\ tsconfig = NullTsconfig
    /\ readme = NullReadme
    /\ keyFiles = NoKeyFiles
    /\ today = ""
    /\ analysisReport = <<>>
    /\ projectContext = <<>>

(***************************************************************************)
(* agents-init.  The package the program is installed in holds the files   *)
(* PackageFiles below PACKAGE_ROOT; the project is the tree fsTree.        *)
(***************************************************************************)
PACKAGE_ROOT == "/pkg"

FRAMEWORKS == <<"next", "react", "remix", "astro">>

STYLING == <<"tailwind", "mui", "vanilla", "styled">>

DATABASES == <<"supabase", "firebase", "prisma", "none">>

CORE_RULES ==
    <<"accessibility", "component-architecture", "spec-driven-development",
      "web-performance">>

CORE_SKILLS == <<"accessibility-audit", "scaffold-component", "workflows">>

CORE_INSTRUCTIONS == <<"development-standards", "web-interface-guidelines">>

GITHUB_FILES ==
    <<"COMMIT_CONVENTION.md", "GITHUB_AUTH_SETUP.md",
      "pr-template-commits.md", "pr-body-semantic-release.md">>

\* AGENTS[key].template
AgentTemplate(key) == key \o ".template.md"

\* the files of the published package, relative to PACKAGE_ROOT
PackageFiles ==
    {"AGENTS.md", "prompts/scaffold-component.prompt.md",
     "skills/accessibility-audit/SKILL.md",
     "skills/scaffold-component/SKILL.md",
     "skills/workflows/setup-orchestration.md",
     "skills/integrate-gemini/SKILL.md"}
    \cup {"rules/" \o r \o ".md" :
            r \in {CORE_RULES[i] : i \in 1..Len(CORE_RULES)}
                  \cup {"tailwind-v4", "mui", "supabase", "gemini",
                        "three-js-react"}}
    \cup {"instructions/" \o n \o ".instructions.md" :
            n \in {CORE_INSTRUCTIONS[i] : i \in 1..Len(CORE_INSTRUCTIONS)}
                  \cup {"mui", "storybook"}}
    \cup {".github/" \o GITHUB_FILES[i] : i \in 1..Len(GITHUB_FILES)}
    \cup {"adapters/" \o AgentTemplate(AgentKeys[i]) : i \in 1..Len(AgentKeys)}

\* fs.existsSync(path.join(PACKAGE_ROOT, rel))
PackageExists(rel) ==
    \/ rel \in PackageFiles
    \/ \E f \in PackageFiles : StartsWith(f, rel \o "/")

RECURSIVE SetToSeq(_)
SetToSeq(S) ==
    IF S = {} THEN <<>>
    ELSE LET x == CHOOSE y \in S : TRUE
         IN  <<x>> \o SetToSeq(S \ {x})

\* the files copyFolderSync finds below a folder of the package, relative
\* to that folder
PackageFilesUnder(rel) ==
    SetToSeq({SubSeq(f, Len(rel) + 2, Len(f)) :
                f \in {g \in PackageFiles : StartsWith(g, rel \o "/")}})

NoDetection ==
    [agents |-> <<>>, framework |-> "null", styling |-> "null",
     database |-> "null", gemini |-> FALSE, storybook |-> FALSE,
     threejs |-> FALSE, hasAgentsFolder |-> FALSE]

\* lines 259-262
InitFrameworkOf(deps) ==
    IF Has(deps, "next") THEN "next"
    ELSE IF Has(deps, "remix") \/ Has(deps, "@remix-run/react") THEN "remix"
    ELSE IF Has(deps, "astro") THEN "astro"
    ELSE IF Has(deps, "react") THEN "react"
    ELSE "null"

InitStylingOf(deps) ==
    IF Has(deps, "tailwindcss") THEN "tailwind"
    ELSE IF Has(deps, "@mui/material") THEN "mui"
    ELSE IF Has(deps, "styled-components") THEN "styled"
    ELSE "null"

InitDatabaseOf(deps) ==
    IF Has(deps, "@supabase/supabase-js") THEN "supabase"
    ELSE IF Has(deps, "firebase") THEN "firebase"
    ELSE IF Has(deps, "@prisma/client") THEN "prisma"
    ELSE "null"

\* JSON.parse raises on text that is not JSON, and the spread of
\* pkg.dependencies raises when pkg is null: the catch block ignores both
detectExistingConfig(fsT, dir, pkgF) ==
    LET parsed == /\ existsSync(fsT, join(dir, "package.json"))
                  /\ pkgF.kind \notin {"absent", "invalid", "null"}
        deps == IF parsed
                THEN SpreadDeps(pkgF.dependencies, pkgF.devDependencies)
                ELSE NoDeps
    IN  [agents |-> SelectSeq(AgentKeys,
                       LAMBDA k : existsSync(fsT, join(dir, AGENTS[k].file))),
         framework |-> InitFrameworkOf(deps),
         styling |-> InitStylingOf(deps),
         database |-> InitDatabaseOf(deps),
         gemini |-> Has(deps, "@google/generative-ai")
                      \/ existsSync(fsT, join(dir, ".gemini")),
         storybook |-> Has(deps, "storybook") \/ Has(deps, "@storybook/react")
                         \/ Has(deps, "@storybook/nextjs"),
         threejs |-> Has(deps, "three") \/ Has(deps, "@react-three/fiber"),
         hasAgentsFolder |-> existsSync(fsT, join(dir, ".agents"))]

\* the first index of c in s from i on, 0 when there is none
RECURSIVE IndexFrom(_, _, _)
IndexFrom(s, c, i) ==
    IF i > Len(s) THEN 0
    ELSE IF CharAt(s, i) = c THEN i
    ELSE IndexFrom(s, c, i + 1)

\* s.split(',')
RECURSIVE SplitComma(_)
SplitComma(s) ==
    LET i == IndexFrom(s, ",", 1)
    IN  IF i = 0 THEN <<s>>
        ELSE <<SubSeq(s, 1, i - 1)>> \o SplitComma(SubSeq(s, i + 1, Len(s)))

DigitValue(c) ==
    CASE c = "0" -> 0 [] c = "1" -> 1 [] c = "2" -> 2 [] c = "3" -> 3
      [] c = "4" -> 4 [] c = "5" -> 5 [] c = "6" -> 6 [] c = "7" -> 7
      [] c = "8" -> 8 [] c = "9" -> 9

IsDigit(c) == c \in {"0", "1", "2", "3", "4", "5", "6", "7", "8", "9"}

NaN == -1000

\* the value of the digits of s from i on, acc the value read so far
RECURSIVE DigitsFrom(_, _, _)
DigitsFrom(s, i, acc) ==
    IF i > Len(s) \/ ~IsDigit(CharAt(s, i)) THEN acc
    ELSE DigitsFrom(s, i + 1, 10 * acc + DigitValue(CharAt(s, i)))

\* parseInt(s): the leading digits of s after its white space, with a sign;
\* NaN when there is no digit
parseInt(s) ==
    LET i == SkipSpace(s, 1)
        signed == i <= Len(s) /\ CharAt(s, i) \in {"-", "+"}
        j == IF signed THEN i + 1 ELSE i
    IN  IF j > Len(s) \/ ~IsDigit(CharAt(s, j)) THEN NaN
        ELSE IF signed /\ CharAt(s, i) = "-" THEN 0 - DigitsFrom(s, j, 0)
        ELSE DigitsFrom(s, j, 0)

\* parseInt(x) - 1 is a valid index of keys; NaN - 1 is NaN
ValidIndex(n, keys) == n # NaN /\ n - 1 >= 0 /\ n - 1 < Len(keys)

multiSelect(ans, keys) ==
    IF toLowerCase(ans) = "all" THEN keys
    ELSE LET parts == SplitComma(ans)
             indices == [i \in 1..Len(parts) |-> parseInt(trim(parts[i]))]
             valid == SelectSeq(indices, LAMBDA n : ValidIndex(n, keys))
         IN  [i \in 1..Len(valid) |-> keys[valid[i]]]

singleSelect(ans, keys) ==
    LET n == parseInt(trim(ans))
    IN  IF ValidIndex(n, keys) THEN keys[n] ELSE keys[1]

NoInitConfig ==
    [projectName |-> "", agents |-> <<>>, framework |-> "null",
     styling |-> "null", database |-> "null", gemini |-> FALSE,
     storybook |-> FALSE, threejs |-> FALSE]

determineRules(config) ==
    CORE_RULES
      \o Opt(config.styling = "tailwind", "tailwind-v4")
      \o Opt(config.styling = "mui", "mui")
      \o Opt(config.database = "supabase", "supabase")
      \o Opt(config.gemini, "gemini")
      \o Opt(config.threejs, "three-js-react")

determineSkills(config) == CORE_SKILLS \o Opt(config.gemini, "integrate-gemini")

determineInstructions(config) ==
    CORE_INSTRUCTIONS
      \o Opt(config.styling = "mui", "mui")
      \o Opt(config.storybook, "storybook")

generateProjectConfig(config) ==
    [version |-> "1.0.0",
     project |-> [name |-> config.projectName,
                  framework |-> OrElse(config.framework, "react"),
                  styling |-> OrElse(config.styling, "vanilla"),
                  database |-> OrElse(config.database, "none")],
     agents |-> config.agents,
     features |-> [gemini |-> config.gemini, storybook |-> config.storybook,
                   threejs |-> config.threejs],
     rules |-> [include |-> determineRules(config), exclude |-> <<>>]]

\* what loadProjectConfig reads back from JSON.stringify(projectConfig):
\* the fields verifyConfiguration reads
Persisted(projectCfg) ==
    ObjectConfig(projectCfg.version, ArrayOfAgents(projectCfg.agents),
                 ProjectObject(projectCfg.project.framework))

Entry(src, dest, relativePath, type, exists) ==
    [src |-> src, dest |-> dest, relativePath |-> relativePath,
     type |-> type, exists |-> exists]

\* a relative path without the trailing slash of a folder entry
StripSlash(p) == IF EndsWith(p, "/") THEN SubSeq(p, 1, Len(p) - 1) ELSE p

\* one entry of the package, pushed when its source exists
PackageEntry(dir, rel, destRel, type) ==
    IF PackageExists(rel)
    THEN <<Entry(join(PACKAGE_ROOT, rel), join(dir, StripSlash(destRel)),
                 destRel, type, FALSE)>>
    ELSE <<>>

RECURSIVE Flatten(_)
Flatten(ss) == IF Len(ss) = 0 THEN <<>> ELSE Head(ss) \o Flatten(Tail(ss))

copyAgentsFolder(dir, config) ==
    LET rules == determineRules(config)
        skills == determineSkills(config)
        instructions == determineInstructions(config)
    IN  PackageEntry(dir, "AGENTS.md", ".agents/AGENTS.md", "file")
          \o PackageEntry(dir, "prompts", ".agents/prompts/", "folder")
          \o Flatten([i \in 1..Len(rules) |->
                PackageEntry(dir, "rules/" \o rules[i] \o ".md",
                             ".agents/rules/" \o rules[i] \o ".md", "file")])
          \o Flatten([i \in 1..Len(skills) |->
                PackageEntry(dir, "skills/" \o skills[i],
                             ".agents/skills/" \o skills[i] \o "/", "folder")])
          \o Flatten([i \in 1..Len(instructions) |->
                PackageEntry(dir,
                    "instructions/" \o instructions[i] \o ".instructions.md",
                    ".agents/instructions/" \o instructions[i]
                      \o ".instructions.md", "file")])

copyGithubFolder(dir) ==
    Flatten([i \in 1..Len(GITHUB_FILES) |->
        PackageEntry(dir, ".github/" \o GITHUB_FILES[i],
                     ".github/" \o GITHUB_FILES[i], "file")])

\* if (exists && !isForce) continue;
AdapterSkipped(fsT, dir, agentKey, isForce) ==
    existsSync(fsT, join(dir, AGENTS[agentKey].file)) /\ ~isForce

AdapterEntries(fsT, dir, selected, isForce) ==
    Flatten([i \in 1..Len(selected) |->
        IF AdapterSkipped(fsT, dir, selected[i], isForce) THEN <<>>
        ELSE <<Entry("", join(dir, AGENTS[selected[i]].file),
                     AGENTS[selected[i]].file, "adapter",
                     existsSync(fsT, join(dir, AGENTS[selected[i]].file)))>>])

ConfigEntry(fsT, dir, isForce) ==
    LET projectConfigPath == join(dir, ".agents-project.json")
        projectConfigExists == existsSync(fsT, projectConfigPath)
    IN  IF ~projectConfigExists \/ isForce
        THEN <<Entry("", projectConfigPath, ".agents-project.json", "config",
                     projectConfigExists)>>
        ELSE <<>>

\* filesToCreate as main() collects it, lines 578-622
CollectFiles(fsT, dir, config, isForce) ==
    copyAgentsFolder(dir, config)
      \o (IF "copilot" \in {config.agents[i] : i \in 1..Len(config.agents)}
          THEN copyGithubFolder(dir) ELSE <<>>)
      \o AdapterEntries(fsT, dir, config.agents, isForce)
      \o ConfigEntry(fsT, dir, isForce)

\* the paths the write loop writes for one entry: the file itself, or
\* every file copyFolderSync copies
EntryWrites(file) ==
    IF file.type = "folder"
    THEN LET under == PackageFilesUnder(
                          SubSeq(file.src, Len(PACKAGE_ROOT) + 2, Len(file.src)))
         IN  [i \in 1..Len(under) |-> join(file.dest, under[i])]
    ELSE <<file.dest>>

\* the directories above p
AncestorDirs(p) ==
    {SubSeq(p, 1, j - 1) : j \in {k \in 2..Len(p) : CharAt(p, k) = "/"}}

\* the tree after copyFileSync, copyFolderSync and writeFile of the paths:
\* a missing directory is made with its parents (mkdirSync with recursive),
\* a missing file is created, an existing file is replaced
WritePaths(fsT, paths) ==
    LET targets == {paths[i] : i \in 1..Len(paths)}
        newFiles == targets \ DOMAIN fsT
        newDirs == {d \in UNION {AncestorDirs(q) : q \in targets} :
                      /\ d \notin DOMAIN fsT
                      /\ \E r \in DOMAIN fsT : StartsWith(d, r \o "/")}
        added(d) == SetToSeq({basename(q) : q \in
                       {n \in newFiles \cup newDirs : dirname(n) = d}})
    IN  [q \in DOMAIN fsT \cup newFiles \cup newDirs |->
            IF q \in newFiles THEN FileNode
            ELSE IF q \in newDirs THEN DirNode(added(q), TRUE)
            ELSE IF fsT[q].kind = "dir"
            THEN [fsT[q] EXCEPT !.entries = @ \o added(q)]
            ELSE fsT[q]]

\* the paths the loop of lines 678-692 writes, in order
AllWrites(entries) ==
    Flatten([i \in 1..Len(entries) |-> EntryWrites(entries[i])])

\* the variables of agents-init before it runs
InitIdle ==
    /\ detected = NoDetection
    /\ selectedAgents = <<>>
    /\ initConfig = NoInitConfig
    /\ filesToCreate = <<>>

\* the variables of a run that has not started
RunIdle ==
    /\ args = {}
    /\ cfgFile = NonObjectConfig("absent")
    /\ projectConfig = NullConfig
    /\ agentConfigs = {}
    /\ verification = NoVerification
    /\ answer = ""
    /\ written = <<>>
    /\ errors = <<>>
    /\ exitCode = -1
    /\ ReportIdle
    /\ InitIdle

(***************************************************************************)
(* Inputs: project roots and the files a scan of them returns.             *)
(***************************************************************************)
ProjectDirs == {"/proj", "/srv/components/app"}

RelPaths ==
    { "src/components/Button.tsx", "src/components/Button.test.tsx",
      "Components/Card.jsx", "pages/home.css", "app/page.tsx",
      "app/notes.md", "webapp/util.spec.ts", "src/api/users.ts",
      "src/hooks/auth.ts", "src/user.ts", "src/lib/db.ts",
      "src/sum.test.ts", "src/__tests__/sum.js", "src/main.scss",
      "src/config.css", "vite.config.ts", "tsconfig.json", ".env.local",
      "README.md" }

AbsPaths(dir) == {dir \o "/" \o r : r \in RelPaths}

SeqsUpTo(S, n) == UNION {[1..k -> S] : k \in 0..n}

NoConventions ==
    [componentStyle |-> "null", fileExtension |-> "null",
     testNaming |-> "null", indexFiles |-> FALSE, barrelExports |-> FALSE]

(***************************************************************************)
(* Inputs: the package.json of the project root.  kind is absent (no       *)
(* file), invalid (not JSON), null, number or array (JSON of that top      *)
(* level type) or object.                                                  *)
(***************************************************************************)
NonObjectManifest(k) ==
    [kind |-> k, name |-> "undefined", version |-> "undefined",
     type |-> "undefined", scripts |-> {}, dependencies |-> NoDeps,
     devDependencies |-> NoDeps]

\* every dependency name a rule of analyzePackageJson reads, and one that
\* no rule reads
DepNames ==
    {"next", "remix", "@remix-run/react", "astro", "nuxt", "svelte",
     "@sveltejs/kit", "gatsby", "react", "vue",
     "tailwindcss", "@mui/material", "styled-components", "@emotion/react",
     "sass", "node-sass",
     "@supabase/supabase-js", "firebase", "@prisma/client", "drizzle-orm",
     "mongoose",
     "vitest", "jest", "@playwright/test", "cypress",
     "eslint", "prettier", "biome", "@biomejs/biome",
     "turbo", "@turbo/gen", "nx", "vite", "webpack",
     "@google/generative-ai", "openai", "@anthropic-ai/sdk", "storybook",
     "@storybook/react", "three", "@react-three/fiber", "framer-motion",
     "react-query", "@tanstack/react-query", "zustand", "jotai", "redux",
     "@reduxjs/toolkit", "zod", "react-hook-form", "typescript", "lodash"}

DevDepNames == {"next", "typescript"}

\* an entry of the manifest: <<section, dependency name>>
Slots ==
    ({"dependencies"} \X DepNames) \cup ({"devDependencies"} \X DevDepNames)

ReactSlots == {<<"dependencies", "react">>}

\* version values: "" is the range npm reads as "*"
BasicVersions == {Str(""), Str("1.0.0")}

ReactVersions ==
    {Str(""), Str("18.2.0"), Str("19.0.0"), Str("0.0.0-canary"), Num(19)}

RECURSIVE SubsetsUpTo(_, _)
SubsetsUpTo(S, k) ==
    IF k = 0 THEN {{}}
    ELSE LET P == SubsetsUpTo(S, k - 1)
         IN  P \cup {T \cup {x} : T \in P, x \in S}

ObjectManifest(S, b, r) ==
    LET val(sl) == IF sl \in ReactSlots THEN r[sl] ELSE b[sl]
        section(sec) ==
            [n \in {sl[2] : sl \in {t \in S : t[1] = sec}} |-> val(<<sec, n>>)]
    IN  [kind |-> "object", name |-> "demo-app", version |-> "1.0.0",
         type |-> "undefined", scripts |-> {"dev", "build"},
         dependencies |-> section("dependencies"),
         devDependencies |-> section("devDependencies")]

\* what the scan returns at the project root: the configuration file that
\* main() requires, and package.json when there is one
RootFiles(pkgF) ==
    IF pkgF.kind = "absent" THEN <<"/proj/.agents-project.json">>
    ELSE <<"/proj/.agents-project.json", "/proj/package.json">>

RootFilesAbsent == RootFiles(NonObjectManifest("absent"))

RootFilesPresent == RootFiles(NonObjectManifest("invalid"))

RootCategories(pkgF) ==
    IF pkgF.kind = "absent" THEN categorizeFiles(RootFilesAbsent, "/proj")
    ELSE categorizeFiles(RootFilesPresent, "/proj")

RootConventions(pkgF) ==
    IF pkgF.kind = "absent" THEN analyzeNamingConventions(RootFilesAbsent)
    ELSE analyzeNamingConventions(RootFilesPresent)

(***************************************************************************)
(* Inputs: the trees scanDirectory is run on.  Below the root there may be *)
(* one top directory (a name the scan skips, or one it does not), a chain  *)
(* of nested directories d1/d2/... each holding a file, a directory that   *)
(* may be unreadable, and src with a nested node_modules and possibly a    *)
(* link back to an ancestor.                                               *)
(***************************************************************************)
\* deepest chain of nested directories of a scanned tree
MaxChain == 11

ScanRoots == {"/proj", "/srv/build/.app"}

TopDirNames == IGNORE_DIRS \cup {".agents", "builds", "none"}

SrcShapes == {"none", "plain", "linkToRoot", "linkToSrc"}

LockedShapes == {"none", "readable", "unreadable"}

EmptyTree == [p \in {} |-> FileNode]

RECURSIVE ChainPath(_, _)
ChainPath(root, i) ==
    IF i = 0 THEN root ELSE join(ChainPath(root, i - 1), "d" \o ToString(i))

ChainTree(root, n) ==
    LET dirs == {ChainPath(root, i) : i \in 1..n}
        depthOf(p) == CHOOSE i \in 1..n : ChainPath(root, i) = p
    IN  [p \in dirs \cup {join(d, "f.ts") : d \in dirs} |->
            IF p \in dirs
            THEN DirNode(IF depthOf(p) = n THEN <<"f.ts">>
                         ELSE <<"f.ts", "d" \o ToString(depthOf(p) + 1)>>,
                         TRUE)
            ELSE FileNode]

TopDirTree(root, name) ==
    IF name = "none" THEN EmptyTree
    ELSE (join(root, name) :> DirNode(<<"x.js", "sub">>, TRUE))
         @@ (join(join(root, name), "x.js") :> FileNode)
         @@ (join(join(root, name), "sub") :> DirNode(<<"y.js">>, TRUE))
         @@ (join(join(join(root, name), "sub"), "y.js") :> FileNode)

LockedTree(root, shape) ==
    IF shape = "none" THEN EmptyTree
    ELSE (join(root, "locked")
              :> DirNode(<<"secret.ts">>, shape = "readable"))
         @@ (join(join(root, "locked"), "secret.ts") :> FileNode)

SrcTree(root, shape) ==
    LET src == join(root, "src")
        base == (src :> DirNode(IF shape = "plain"
                                THEN <<"main.ts", "node_modules">>
                                ELSE <<"loop", "main.ts", "node_modules">>,
                                TRUE))
                @@ (join(src, "main.ts") :> FileNode)
                @@ (join(src, "node_modules") :> DirNode(<<"dep.js">>, TRUE))
                @@ (join(join(src, "node_modules"), "dep.js") :> FileNode)
    IN  IF shape = "none" THEN EmptyTree
        ELSE IF shape = "plain" THEN base
        ELSE base @@ (join(src, "loop")
                          :> LinkNode(IF shape = "linkToRoot" THEN root
                                      ELSE src))

\* the names readdirSync lists at the root
RootEntries(top, locked, src, chain) ==
    (IF top = "none" THEN <<>> ELSE <<top>>)
    \o <<"README.md">>
    \o (IF chain = 0 THEN <<>> ELSE <<"d1">>)
    \o (IF locked = "none" THEN <<>> ELSE <<"locked">>)
    \o (IF src = "none" THEN <<>> ELSE <<"src">>)
    \o <<"zed.ts">>

ScanTree(root, top, locked, src, chain) ==
    (root :> DirNode(RootEntries(top, locked, src, chain), TRUE))
    @@ (join(root, "README.md") :> FileNode)
    @@ (join(root, "zed.ts") :> FileNode)
    @@ TopDirTree(root, top)
    @@ LockedTree(root, locked)
    @@ SrcTree(root, src)
    @@ ChainTree(root, chain)

(***************************************************************************)
(* Inputs: the project a run of agents-analyze starts in.  The root may    *)
(* hold .agents-project.json, the .agents directory with some of its       *)
(* files, adapter files of agents and package.json; it always holds        *)
(* src/index.ts.                                                           *)
(***************************************************************************)
\* most names in the agents array of the persisted configuration
MaxAgents == 2

ListedAgentNames == {"claude", "copilot", "aider", "constructor"}

AdapterAgents == {"claude", "copilot"}

ConfigVersions == {"1.1.0", "1.0.0"}

ConfigFrameworks == {"undefined", "next", "Next.js", "react", "vue"}

AgentsDirFiles == {"AGENTS.md", "PROJECT-CONTEXT.md", "ANALYSIS.md"}

Manifest(names) ==
    LET S == {<<"dependencies", n>> : n \in names}
    IN  ObjectManifest(S, [s \in S \ ReactSlots |-> Str("1.0.0")],
                       [s \in S \cap ReactSlots |-> Str("18.2.0")])

RunManifests ==
    {NonObjectManifest("absent"), Manifest({"next", "react"}),
     Manifest({"react", "vite"})}

VerifyConfigs ==
    {NonObjectConfig(k) : k \in {"absent", "invalid", "null"}}
    \cup {ObjectConfig(ver, ags, proj) :
            ver \in ConfigVersions,
            ags \in {UndefinedAgents, NumberAgents}
                    \cup {ArrayOfAgents(l) :
                            l \in SeqsUpTo(ListedAgentNames, MaxAgents)},
            proj \in {UndefinedProject}
                     \cup {ProjectObject(fw) : fw \in ConfigFrameworks}}

DefaultConfig ==
    ObjectConfig("1.1.0", ArrayOfAgents(<<"claude">>), ProjectObject("next"))

\* the .agents directory: absent, or there with the files of inDir
AgentsDirTree(root, present, inDir) ==
    LET d == join(root, ".agents")
        names == (IF "AGENTS.md" \in inDir THEN <<"AGENTS.md">> ELSE <<>>)
                 \o (IF "ANALYSIS.md" \in inDir THEN <<"ANALYSIS.md">>
                     ELSE <<>>)
                 \o (IF "PROJECT-CONTEXT.md" \in inDir
                     THEN <<"PROJECT-CONTEXT.md">> ELSE <<>>)
    IN  IF ~present THEN EmptyTree
        ELSE (d :> DirNode(names, TRUE))
             @@ [p \in {join(d, n) : n \in inDir} |-> FileNode]

AdapterTree(root, adapters) ==
    (IF "copilot" \in adapters
     THEN (join(root, ".github")
               :> DirNode(<<"copilot-instructions.md">>, TRUE))
          @@ (join(root, AGENTS["copilot"].file) :> FileNode)
     ELSE EmptyTree)
    @@ (IF "claude" \in adapters
        THEN (join(root, AGENTS["claude"].file) :> FileNode)
        ELSE EmptyTree)

RunRootEntries(cfgF, present, adapters, pkgF) ==
    (IF present THEN <<".agents">> ELSE <<>>)
    \o (IF cfgF.kind # "absent" THEN <<".agents-project.json">> ELSE <<>>)
    \o (IF "copilot" \in adapters THEN <<".github">> ELSE <<>>)
    \o (IF "claude" \in adapters THEN <<"CLAUDE.md">> ELSE <<>>)
    \o (IF pkgF.kind # "absent" THEN <<"package.json">> ELSE <<>>)
    \o <<"src">>

RunTree(root, cfgF, present, inDir, adapters, pkgF) ==
    (root :> DirNode(RunRootEntries(cfgF, present, adapters, pkgF), TRUE))
    @@ (join(root, "src") :> DirNode(<<"index.ts">>, TRUE))
    @@ (join(join(root, "src"), "index.ts") :> FileNode)
    @@ (IF cfgF.kind # "absent"
        THEN (join(root, ".agents-project.json") :> FileNode)
        ELSE EmptyTree)
    @@ (IF pkgF.kind # "absent"
        THEN (join(root, "package.json") :> FileNode)
        ELSE EmptyTree)
    @@ AgentsDirTree(root, present, inDir)
    @@ AdapterTree(root, adapters)

\* what the operator may type at the confirmation prompt
Answers == {"y", "Y", "yes", "YES", "Yes", "n", "no", "", "yes ", "yep"}

Flags == {"--verify", "--report", "--dry-run", "--help"}

(***************************************************************************)
(* main(): the directory scan.  An exception of scanDirectory would end    *)
(* the process in main().catch with exit status 1.                         *)
(***************************************************************************)
InitScan ==
    /\ pc = "scanDirectory"
    /\ projectDir \in ScanRoots
    /\ \E top \in TopDirNames, locked \in LockedShapes, src \in SrcShapes,
          chain \in 0..MaxChain :
          fsTree = ScanTree(projectDir, top, locked, src, chain)
    /\ fileStructure = NotScanned
    /\ files = <<>>
    /\ categories = EmptyCategories
    /\ conventions = NoConventions
    /\ pkgFile = NonObjectManifest("absent")
    /\ packageJson = EmptyAnalysis
    /\ RunIdle

ScanStep ==
    /\ pc = "scanDirectory"
    /\ LET r == scanDirectory(fsTree, projectDir, DefaultMaxDepth, 0)
       IN  /\ fileStructure' = r
           /\ files' = r.files
           /\ pc' = IF r.threw THEN "exit1" ELSE "categorizeFiles"
    /\ UNCHANGED <<projectDir, fsTree, categories, conventions, pkgFile,
                   packageJson, runVars>>
    /\ UNCHANGED <<reportVars, initVars>>

NextScan == ScanStep

SpecScan == InitScan /\ [][NextScan]_vars

(***************************************************************************)
(* main(): the categorization step                                         *)
(***************************************************************************)
InitCategorize ==
    /\ pc = "categorizeFiles"
    /\ projectDir \in ProjectDirs
    /\ files \in SeqsUpTo(AbsPaths(projectDir), MaxFiles)
    /\ categories = EmptyCategories
    /\ conventions = NoConventions
    /\ pkgFile = NonObjectManifest("absent")
    /\ packageJson = EmptyAnalysis
    /\ fsTree = EmptyTree
    /\ fileStructure = NotScanned
    /\ RunIdle

CategorizeStep ==
    /\ pc = "categorizeFiles"
    /\ categories' = categorizeFiles(files, projectDir)
    /\ pc' = "analyzeNamingConventions"
    /\ UNCHANGED <<projectDir, files, conventions, pkgFile, packageJson,
                   scanVars, runVars>>
    /\ UNCHANGED <<reportVars, initVars>>

NextCategorize == CategorizeStep

SpecCategorize == InitCategorize /\ [][NextCategorize]_vars

(***************************************************************************)
(* main(): the naming-convention step.  The scanned tree has directories   *)
(* d1, d2, ... ; directory d<i> holds a file of kind k when the tree holds *)
(* at least i files of that kind, so no path occurs twice.                 *)
(***************************************************************************)
KindNames ==
    <<"Button.tsx", "helper.jsx", "date-utils.ts", "sum.test.ts",
      "sum.spec.ts", "api.spec.test.js", "index.ts">>

KindMax ==
    <<MaxPerKind, MaxPerKind, MaxPerKind, MaxPerKind, MaxPerKind, MaxMixed,
      MaxIndexFiles>>

KindCounts ==
    (0..MaxPerKind) \X (0..MaxPerKind) \X (0..MaxPerKind) \X (0..MaxPerKind)
        \X (0..MaxPerKind) \X (0..MaxMixed) \X (0..MaxIndexFiles)

\* the (directory, kind) pairs of the tree in listing order
TreeEntries(n) ==
    {e \in (1..SetMax({n[j] : j \in 1..Len(KindNames)} \cup {0}))
              \X (1..Len(KindNames)) : n[e[2]] >= e[1]}

ListedBefore(e, f) == e[1] < f[1] \/ (e[1] = f[1] /\ e[2] < f[2])

TreeFiles(dir, n) ==
    LET E == TreeEntries(n)
        at(j) == CHOOSE e \in E :
                    Cardinality({f \in E : ListedBefore(f, e)}) = j - 1
    IN  [j \in 1..Cardinality(E) |->
            dir \o "/d" \o ToString(at(j)[1]) \o "/" \o KindNames[at(j)[2]]]

InitNaming ==
    /\ pc = "analyzeNamingConventions"
    /\ projectDir = "/proj"
    /\ \E n \in KindCounts : files = TreeFiles(projectDir, n)
    /\ categories = categorizeFiles(files, projectDir)
    /\ conventions = NoConventions
    /\ pkgFile = NonObjectManifest("absent")
    /\ packageJson = EmptyAnalysis
    /\ fsTree = EmptyTree
    /\ fileStructure = NotScanned
    /\ RunIdle

NamingStep ==
    /\ pc = "analyzeNamingConventions"
    /\ conventions' = analyzeNamingConventions(files)
    /\ pc' = "analyzePackageJson"
    /\ UNCHANGED <<projectDir, files, categories, pkgFile, packageJson,
                   scanVars, runVars>>
    /\ UNCHANGED <<reportVars, initVars>>

NextNaming == NamingStep

SpecNaming == InitNaming /\ [][NextNaming]_vars

(***************************************************************************)
(* main(): the manifest step.  An exception of analyzePackageJson would    *)
(* leave main() through its finally block and end the process in           *)
(* main().catch with exit status 1.                                        *)
(***************************************************************************)
InitPackageJson ==
    /\ pc = "analyzePackageJson"
    /\ projectDir = "/proj"
    /\ \/ \E k \in {"absent", "invalid", "null", "number", "array"} :
             pkgFile = NonObjectManifest(k)
       \/ \E S \in SubsetsUpTo(Slots, MaxDeps) :
             \E b \in [S \ ReactSlots -> BasicVersions] :
                \E r \in [S \cap ReactSlots -> ReactVersions] :
                   pkgFile = ObjectManifest(S, b, r)
    /\ files = RootFiles(pkgFile)
    /\ categories = RootCategories(pkgFile)
    /\ conventions = RootConventions(pkgFile)
    /\ packageJson = EmptyAnalysis
    /\ fsTree = EmptyTree
    /\ fileStructure = NotScanned
    /\ RunIdle

PackageJsonStep ==
    /\ pc = "analyzePackageJson"
    /\ LET r == analyzePackageJson(pkgFile)
       IN  /\ packageJson' = r.analysis
           /\ pc' = IF r.raised THEN "exit1" ELSE "analyzeTypeScriptConfig"
    /\ UNCHANGED <<projectDir, files, categories, conventions, pkgFile,
                   scanVars, runVars>>
    /\ UNCHANGED <<reportVars, initVars>>

NextPackageJson == PackageJsonStep

SpecPackageJson == InitPackageJson /\ [][NextPackageJson]_vars

(***************************************************************************)
(* A run of agents-analyze: the help exit at module level, then main()     *)
(* from the prerequisite check to the exit of the process.  pc is the      *)
(* position of the run; exitCode is -1 while the process is running.       *)
(* SpecVerify draws the persisted configuration and the disk of a verify   *)
(* run; SpecRun draws the flags and the answer of the operator.            *)
(***************************************************************************)
\* a prerequisite check that ends the run with status 0
PrerequisiteCheck_Success(fsT, dir) ==
    IF /\ ~existsSync(fsT, join(dir, ".agents-project.json"))
       /\ ~existsSync(fsT, join(dir, ".agents"))
    THEN [failed |-> TRUE, message |-> "No agents configuration found.",
          status |-> 0]
    ELSE [failed |-> FALSE, message |-> "", status |-> -1]

\* the prerequisite check of main(): log.error and process.exit(1) when
\* neither .agents-project.json nor .agents exists
PrerequisiteCheck(fsT, dir) ==
    IF /\ ~existsSync(fsT, join(dir, ".agents-project.json"))
       /\ ~existsSync(fsT, join(dir, ".agents"))
    THEN [failed |-> TRUE, message |-> "No agents configuration found.",
          status |-> 1]
    ELSE [failed |-> FALSE, message |-> "", status |-> -1]

InitRunWith(flags, cfgF, present, inDir, adapters, pkgF) ==
    /\ pc = "start"
    /\ projectDir = "/proj"
    /\ args = flags
    /\ cfgFile = cfgF
    /\ pkgFile = pkgF
    /\ fsTree = RunTree(projectDir, cfgF, present, inDir, adapters, pkgF)
    /\ fileStructure = NotScanned
    /\ files = <<>>
    /\ categories = EmptyCategories
    /\ conventions = NoConventions
    /\ packageJson = EmptyAnalysis
    /\ projectConfig = NullConfig
    /\ agentConfigs = {}
    /\ verification = NoVerification
    /\ answer = ""
    /\ written = <<>>
    /\ errors = <<>>
    /\ exitCode = -1
    /\ ReportIdle
    /\ InitIdle

InitVerify ==
    \E cfgF \in VerifyConfigs, present \in BOOLEAN,
       inDir \in SUBSET {"AGENTS.md", "PROJECT-CONTEXT.md"},
       adapters \in SUBSET AdapterAgents, pkgF \in RunManifests :
       /\ ~present => inDir = {}
       /\ InitRunWith({"--verify"}, cfgF, present, inDir, adapters, pkgF)

InitRun ==
    \E flags \in SUBSET Flags,
       cfgF \in {NonObjectConfig("absent"), DefaultConfig},
       present \in BOOLEAN,
       inDir \in {{}, {"AGENTS.md"}, AgentsDirFiles},
       pkgF \in {NonObjectManifest("absent"), Manifest({"next", "react"})} :
       /\ ~present => inDir = {}
       /\ InitRunWith(flags, cfgF, present, inDir, {"claude"}, pkgF)

\* if (isHelp) { ...; process.exit(0); }
StartStep ==
    /\ pc = "start"
    /\ IF "--help" \in args
       THEN pc' = "exited" /\ exitCode' = 0
       ELSE pc' = "main" /\ UNCHANGED exitCode
    /\ UNCHANGED <<projectDir, files, categories, conventions, pkgFile,
                   packageJson, scanVars, args, cfgFile, projectConfig,
                   agentConfigs, verification, answer, written, errors>>
    /\ UNCHANGED <<reportVars, initVars>>

PrerequisiteStep ==
    /\ pc = "main"
    /\ LET check == PrerequisiteCheck(fsTree, projectDir)
       IN  IF check.failed
           THEN /\ errors' = Append(errors, check.message)
                /\ exitCode' = check.status
                /\ pc' = "exited"
           ELSE /\ pc' = "analysis"
                /\ UNCHANGED <<errors, exitCode>>
    /\ UNCHANGED <<projectDir, files, categories, conventions, pkgFile,
                   packageJson, scanVars, args, cfgFile, projectConfig,
                   agentConfigs, verification, answer, written>>
    /\ UNCHANGED <<reportVars, initVars>>

\* "Run all analyses": an exception ends the process in main().catch
AnalysisStep ==
    /\ pc = "analysis"
    /\ LET r == scanDirectory(fsTree, projectDir, DefaultMaxDepth, 0)
           pj == analyzePackageJson(pkgFile)
       IN  /\ fileStructure' = r
           /\ files' = r.files
           /\ categories' = categorizeFiles(r.files, projectDir)
           /\ conventions' = analyzeNamingConventions(r.files)
           /\ packageJson' = pj.analysis
           /\ projectConfig' = loadProjectConfig(cfgFile).config
           /\ agentConfigs' = detectAgentConfigs(fsTree, projectDir)
           /\ IF r.threw \/ pj.raised
              THEN /\ errors' = Append(errors, "err.message")
                   /\ exitCode' = 1
                   /\ pc' = "exited"
              ELSE /\ pc' = IF "--verify" \in args THEN "verify"
                            ELSE "generate"
                   /\ UNCHANGED <<errors, exitCode>>
    /\ tsconfig' = analyzeTypeScriptConfig(tsFile)
    /\ readme' = analyzeReadme(readmeFile)
    /\ keyFiles' = detectKeyFiles(fsTree, projectDir)
    /\ UNCHANGED <<projectDir, pkgFile, fsTree, args, cfgFile, verification,
                   answer, written, tsFile, readmeFile, today,
                   analysisReport, projectContext, initVars>>

\* if (isVerifyOnly) { ... }
VerifyStep ==
    /\ pc = "verify"
    /\ LET v == verifyConfiguration(fsTree, projectDir, projectConfig,
                                    agentConfigs, packageJson)
       IN  IF v.threw
           THEN /\ verification' = NoVerification
                /\ errors' = Append(errors, "err.message")
                /\ exitCode' = 1
           ELSE /\ verification' = v
                /\ errors' = errors \o v.issues
                /\ exitCode' = VerifyExitStatus(v)
    /\ pc' = "exited"
    /\ UNCHANGED <<projectDir, files, categories, conventions, pkgFile,
                   packageJson, scanVars, args, cfgFile, projectConfig,
                   agentConfigs, answer, written>>
    /\ UNCHANGED <<reportVars, initVars>>

\* the analysis object of the run
Analysis ==
    AnalysisOf(fileStructure, categories, conventions, packageJson, tsconfig,
               projectConfig, agentConfigs, readme, keyFiles)

\* the reports are generated, an exception ends the process in
\* main().catch; --report and --dry-run end the run here.  Of the analysis
\* object only packageJson is handed to code that could write to it.
GenerateStep ==
    /\ pc = "generate"
    /\ LET report == generateAnalysisReport(Analysis, today)
           context == generateProjectContext(report.analysis)
       IN  IF report.threw
           THEN /\ analysisReport' = <<>>
                /\ projectContext' = <<>>
                /\ errors' = Append(errors, "err.message")
                /\ exitCode' = 1
                /\ pc' = "exited"
                /\ UNCHANGED packageJson
           ELSE /\ analysisReport' = report.lines
                /\ projectContext' = context.lines
                /\ packageJson' = context.analysis.packageJson
                /\ UNCHANGED errors
                /\ IF "--report" \in args \/ "--dry-run" \in args
                   THEN pc' = "exited" /\ exitCode' = 0
                   ELSE pc' = "confirm" /\ UNCHANGED exitCode
    /\ UNCHANGED <<projectDir, files, categories, conventions, pkgFile,
                   scanVars, args, cfgFile, projectConfig, agentConfigs,
                   verification, answer, written, tsFile, readmeFile,
                   tsconfig, readme, keyFiles, today, initVars>>

\* const shouldProceed = await confirm(rl, 'Generate these files?')
ConfirmStep ==
    /\ pc = "confirm"
    /\ \E a \in Answers :
          /\ answer' = a
          /\ IF confirm(a)
             THEN pc' = "write" /\ UNCHANGED exitCode
             ELSE pc' = "exited" /\ exitCode' = 0
    /\ UNCHANGED <<projectDir, files, categories, conventions, pkgFile,
                   packageJson, scanVars, args, cfgFile, projectConfig,
                   agentConfigs, verification, written, errors>>
    /\ UNCHANGED <<reportVars, initVars>>

\* the files are written and main() returns
WriteStep ==
    /\ pc = "write"
    /\ fsTree' = WriteFiles(fsTree, projectDir)
    /\ written' = written \o FilesToCreate(projectDir)
    /\ pc' = "exited"
    /\ exitCode' = 0
    /\ UNCHANGED <<projectDir, files, categories, conventions, pkgFile,
                   packageJson, fileStructure, args, cfgFile, projectConfig,
                   agentConfigs, verification, answer, errors>>
    /\ UNCHANGED <<reportVars, initVars>>

NextVerify == StartStep \/ PrerequisiteStep \/ AnalysisStep \/ VerifyStep

SpecVerify == InitVerify /\ [][NextVerify]_vars

NextRun ==
    \/ StartStep
    \/ PrerequisiteStep
    \/ AnalysisStep
    \/ VerifyStep
    \/ GenerateStep
    \/ ConfirmStep
    \/ WriteStep

SpecRun == InitRun /\ [][NextRun]_vars

(***************************************************************************)
(* detectKeyFiles on its own: the project root holds any of the well-known *)
(* names, and names no key reads.                                          *)
(***************************************************************************)
KeyNames ==
    <<"README.md", "CONTRIBUTING.md", "LICENSE", "CHANGELOG.md",
      ".env.example", ".env.local.example", "Dockerfile",
      "docker-compose.yml", ".github", ".husky", ".editorconfig", ".nvmrc",
      "readme.txt">>

KeyDirs == {".github", ".husky"}

\* the root with the entries S; .github holds workflows when w is TRUE
KeyTree(root, S, w) ==
    LET names == SelectSeq(KeyNames, LAMBDA n : n \in S)
    IN  (root :> DirNode(names, TRUE))
        @@ [p \in {join(root, n) : n \in S} |->
              IF p = join(root, ".github")
              THEN DirNode(IF w THEN <<"workflows">> ELSE <<>>, TRUE)
              ELSE IF p = join(root, ".husky") THEN DirNode(<<>>, TRUE)
              ELSE FileNode]
        @@ (IF w /\ ".github" \in S
            THEN (join(join(root, ".github"), "workflows")
                    :> DirNode(<<>>, TRUE))
            ELSE EmptyTree)

InitKeyFiles ==
    /\ pc = "detectKeyFiles"
    /\ projectDir = "/proj"
    /\ \E S \in SUBSET {KeyNames[i] : i \in 1..Len(KeyNames)}, w \in BOOLEAN :
          /\ w => ".github" \in S
          /\ fsTree = KeyTree(projectDir, S, w)
    /\ files = <<>>
    /\ categories = EmptyCategories
    /\ conventions = NoConventions
    /\ pkgFile = NonObjectManifest("absent")
    /\ packageJson = EmptyAnalysis
    /\ fileStructure = NotScanned
    /\ RunIdle

\* const keyFiles = detectKeyFiles(projectDir)
KeyFilesStep ==
    /\ pc = "detectKeyFiles"
    /\ keyFiles' = detectKeyFiles(fsTree, projectDir)
    /\ pc' = "analysed"
    /\ UNCHANGED <<projectDir, files, categories, conventions, pkgFile,
                   packageJson, scanVars, runVars, tsFile, readmeFile,
                   tsconfig, readme, today, analysisReport, projectContext,
                   initVars>>

NextKeyFiles == KeyFilesStep

SpecKeyFiles == InitKeyFiles /\ [][NextKeyFiles]_vars

(***************************************************************************)
(* The renderers on their own: main() has run the analyses of a project    *)
(* whose scan returned some of ReportPaths, and generates the two reports. *)
(* fsTree holds the entries of the root that detectKeyFiles reads.         *)
(***************************************************************************)
\* most files of a scanned project
MaxReportFiles == 3

ReportPaths ==
    <<"api/users.ts", "app/page.tsx", "lib/components/Card.tsx",
      "src/Button.test.tsx", "src/components/Button.tsx",
      "src/hooks/useAuth.ts", "src/utils/format.ts">>

ReportManifests ==
    {NonObjectManifest("absent"), Manifest({}),
     Manifest({"next", "tailwindcss"}),
     ObjectManifest({<<"dependencies", "next">>,
                     <<"dependencies", "tailwindcss">>},
                    [s \in {<<"dependencies", "next">>} |-> Str("")]
                      @@ [s \in {<<"dependencies", "tailwindcss">>} |->
                            Str("1.0.0")],
                    [s \in {} |-> Str("")]),
     Manifest({"react", "typescript", "jest", "@prisma/client"})}

AliasEntry(alias, targets) == [alias |-> alias, targets |-> targets]

ReportTsFiles ==
    {AbsentTsFile, InvalidTsFile,
     ObjectTsFile(TRUE, ".",
                  <<AliasEntry("@/*", ArrayTargets(<<"./src/*">>))>>),
     ObjectTsFile(FALSE, "undefined",
                  <<AliasEntry("@/*", ArrayTargets(<<>>)),
                    AliasEntry("~/*", NullTargets)>>)}

ReportReadmes ==
    {AbsentReadme,
     ReadmeOf(<<"# Demo", "", "  A demo app. # draft", "", "## Install">>),
     ReadmeOf(<<"Demo", "====", "#  ", "", "#tags">>)}

Dates == {"2025-01-31", "2025-02-01"}

\* the absolute paths of the files of ReportPaths that S selects
ScannedFiles(root, S) ==
    LET chosen == SelectSeq(ReportPaths, LAMBDA p : p \in S)
    IN  [i \in 1..Len(chosen) |-> join(root, chosen[i])]

\* the directories a sequence of files lies in, the root excluded
DirsOf(root, fs) ==
    {d \in UNION {{SubSeq(fs[i], 1, j - 1) :
                     j \in {k \in 1..Len(fs[i]) : CharAt(fs[i], k) = "/"}} :
                  i \in 1..Len(fs)} : StartsWith(d, root \o "/")}

InitReport ==
    /\ pc = "generate"
    /\ projectDir = "/proj"
    /\ args \in {{}, {"--report"}}
    /\ pkgFile \in ReportManifests
    /\ tsFile \in ReportTsFiles
    /\ readmeFile \in ReportReadmes
    /\ today \in Dates
    /\ cfgFile = DefaultConfig
    /\ \E S \in SubsetsUpTo({ReportPaths[i] : i \in 1..Len(ReportPaths)},
                            MaxReportFiles) :
          files = ScannedFiles(projectDir, S)
    /\ fsTree = KeyTree(projectDir,
                        {".husky"} \cup (IF readmeFile.kind = "absent" THEN {}
                                         ELSE {"README.md"}), FALSE)
    /\ fileStructure =
          [EmptyResults EXCEPT !.files = files, !.totalFiles = Len(files),
                               !.totalDirs =
                                   Cardinality(DirsOf(projectDir, files))]
    /\ categories = categorizeFiles(files, projectDir)
    /\ conventions = analyzeNamingConventions(files)
    /\ packageJson = analyzePackageJson(pkgFile).analysis
    /\ tsconfig = analyzeTypeScriptConfig(tsFile)
    /\ readme = analyzeReadme(readmeFile)
    /\ keyFiles = detectKeyFiles(fsTree, projectDir)
    /\ projectConfig = loadProjectConfig(cfgFile).config
    /\ agentConfigs = {"claude"}
    /\ verification = NoVerification
    /\ answer = ""
    /\ written = <<>>
    /\ errors = <<>>
    /\ exitCode = -1
    /\ analysisReport = <<>>
    /\ projectContext = <<>>
    /\ InitIdle

NextReport == GenerateStep

SpecReport == InitReport /\ [][NextReport]_vars

(***************************************************************************)
(* A run of agents-init: the help exit, detectExistingConfig, the prompts  *)
(* and the collection of filesToCreate, the confirmation and the loop that *)
(* creates the files.  The log lines are not part of the state.            *)
(***************************************************************************)
InitFlags ==
    {{}, {"--force"}, {"--dry-run"}, {"--force", "--dry-run"}, {"-h"}}

InitManifests ==
    {NonObjectManifest("absent"), NonObjectManifest("invalid"),
     Manifest({"next", "react"}), Manifest({"react", "vite"}),
     Manifest({"gatsby", "react"}),
     Manifest({"astro", "react", "tailwindcss"}),
     Manifest({"@remix-run/react", "react", "@mui/material"})}

\* what the operator types at the prompts
AgentAnswers == {"all", "2", "2, 1", "1,1", "", "x,9"}

FrameworkAnswers == {"3", "0"}

StylingAnswers == {"", "2"}

GeminiAnswers == {"y", "n"}

CreateAnswers == {"y", "YES", "n"}

InitAgentsInit ==
    /\ pc = "init-start"
    /\ projectDir = "/proj"
    /\ args \in InitFlags
    /\ cfgFile \in {NonObjectConfig("absent"), DefaultConfig}
    /\ pkgFile \in InitManifests
    /\ \E present \in BOOLEAN, inDir \in {{}, {"AGENTS.md"}},
          adapters \in {{}, {"claude", "copilot"}} :
          /\ ~present => inDir = {}
          /\ fsTree = RunTree(projectDir, cfgFile, present, inDir, adapters,
                              pkgFile)
    /\ fileStructure = NotScanned
    /\ files = <<>>
    /\ categories = EmptyCategories
    /\ conventions = NoConventions
    /\ packageJson = EmptyAnalysis
    /\ projectConfig = NullConfig
    /\ agentConfigs = {}
    /\ verification = NoVerification
    /\ answer = ""
    /\ written = <<>>
    /\ errors = <<>>
    /\ exitCode = -1
    /\ ReportIdle
    /\ InitIdle

\* if (isHelp) { ...; process.exit(0); }
HelpStep ==
    /\ pc = "init-start"
    /\ IF "--help" \in args \/ "-h" \in args
       THEN pc' = "exited" /\ exitCode' = 0
       ELSE pc' = "init-main" /\ UNCHANGED exitCode
    /\ UNCHANGED <<projectDir, files, categories, conventions, pkgFile,
                   packageJson, scanVars, args, cfgFile, projectConfig,
                   agentConfigs, verification, answer, written, errors,
                   reportVars, initVars>>

\* const detected = detectExistingConfig(projectDir)
DetectStep ==
    /\ pc = "init-main"
    /\ detected' = detectExistingConfig(fsTree, projectDir, pkgFile)
    /\ pc' = "prompts"
    /\ UNCHANGED <<projectDir, files, categories, conventions, pkgFile,
                   packageJson, scanVars, runVars, reportVars,
                   selectedAgents, initConfig, filesToCreate>>

\* the prompts, the config object and filesToCreate; a dry run ends here
PromptStep ==
    /\ pc = "prompts"
    /\ \E agentsAns \in AgentAnswers, frameworkAns \in FrameworkAnswers,
          stylingAns \in StylingAnswers, geminiAns \in GeminiAnswers :
          LET selected == multiSelect(agentsAns, AgentKeys)
              config ==
                 [projectName |-> basename(projectDir),
                  agents |-> selected,
                  framework |-> IF JsTruthy(detected.framework)
                                THEN detected.framework
                                ELSE singleSelect(frameworkAns, FRAMEWORKS),
                  styling |-> IF JsTruthy(detected.styling)
                              THEN detected.styling
                              ELSE singleSelect(stylingAns, STYLING),
                  database |-> IF JsTruthy(detected.database)
                               THEN detected.database
                               ELSE singleSelect("4", DATABASES),
                  gemini |-> \/ detected.gemini
                             \/ "gemini" \in {selected[i] : i \in 1..Len(selected)}
                             \/ confirm(geminiAns),
                  storybook |-> detected.storybook,
                  threejs |-> detected.threejs]
          IN  /\ selectedAgents' = selected
              /\ initConfig' = config
              /\ filesToCreate' = CollectFiles(fsTree, projectDir, config,
                                               "--force" \in args)
    /\ IF "--dry-run" \in args
       THEN pc' = "exited" /\ exitCode' = 0
       ELSE pc' = "create-confirm" /\ UNCHANGED exitCode
    /\ UNCHANGED <<projectDir, files, categories, conventions, pkgFile,
                   packageJson, scanVars, args, cfgFile, projectConfig,
                   agentConfigs, verification, answer, written, errors,
                   reportVars, detected>>

\* const shouldProceed = await confirm(rl, 'Create these files?')
CreateConfirmStep ==
    /\ pc = "create-confirm"
    /\ \E a \in CreateAnswers :
          /\ answer' = a
          /\ IF confirm(a)
             THEN pc' = "create" /\ UNCHANGED exitCode
             ELSE pc' = "exited" /\ exitCode' = 0
    /\ UNCHANGED <<projectDir, files, categories, conventions, pkgFile,
                   packageJson, scanVars, args, cfgFile, projectConfig,
                   agentConfigs, verification, written, errors, reportVars,
                   initVars>>

\* for (const file of filesToCreate) { ... }: the files are copied and
\* written, and .agents-project.json holds the generated configuration
CreateStep ==
    /\ pc = "create"
    /\ LET paths == AllWrites(filesToCreate)
       IN  /\ fsTree' = WritePaths(fsTree, paths)
           /\ written' = written \o paths
           /\ cfgFile' =
                 IF \E i \in 1..Len(filesToCreate) :
                       filesToCreate[i].type = "config"
                 THEN Persisted(generateProjectConfig(initConfig))
                 ELSE cfgFile
    /\ pc' = "exited"
    /\ exitCode' = 0
    /\ UNCHANGED <<projectDir, files, categories, conventions, pkgFile,
                   packageJson, fileStructure, args, projectConfig,
                   agentConfigs, verification, answer, errors, reportVars,
                   initVars>>

NextAgentsInit ==
    \/ HelpStep
    \/ DetectStep
    \/ PromptStep
    \/ CreateConfirmStep
    \/ CreateStep

SpecAgentsInit == InitAgentsInit /\ [][NextAgentsInit]_vars

(***************************************************************************)
(* Properties of categorizeFiles                                           *)
(***************************************************************************)
LabelSet == {Labels[i] : i \in 1..Len(Labels)}

RuleOrder == SubSeq(Labels, 1, 8)

SetMin(S) == CHOOSE m \in S : \A n \in S : m <= n

Categorized == pc = "analyzeNamingConventions"

InBucket(l, p) == \E i \in 1..Len(categories[l]) : categories[l][i] = p

Occurrences(sq, x) == Cardinality({i \in 1..Len(sq) : sq[i] = x})

RelOf(i) == relative(projectDir, files[i])

IsTestName(file) ==
    Includes(basename(file), ".test.") \/ Includes(basename(file), ".spec.")

InComponentsDir(rel) ==
    Includes(rel, "components/") \/ Includes(rel, "Components/")

\* the label of the first rule of RuleOrder that matches, "other" if none
FirstMatch(rel, ext, base) ==
    LET M == {k \in 1..Len(RuleOrder) : RuleMatches(RuleOrder[k], rel, ext, base)}
    IN  IF M = {} THEN "other" ELSE RuleOrder[SetMin(M)]

\* C1 (as stated): a file inside a components directory whose basename
\* contains .test. or .spec. is bucketed as tests and not as components,
\* while the other files of that directory are bucketed as components.
C1_TestsBeatComponents ==
    Categorized =>
        \A i \in 1..Len(files) :
            InComponentsDir(RelOf(i)) =>
                IF IsTestName(files[i])
                THEN InBucket("tests", RelOf(i)) /\ ~InBucket("components", RelOf(i))
                ELSE InBucket("components", RelOf(i))

\* C1 (amended): every file inside a components directory is bucketed as
\* components and not as tests, also when its basename contains .test. or
\* .spec.; a test-named file is bucketed as tests only when none of the
\* components, pages, api, hooks and utils rules matches its path.
C1_ComponentsBeatTests ==
    Categorized =>
        \A i \in 1..Len(files) :
            LET rel == RelOf(i) ext == extname(files[i]) base == basename(files[i])
            IN  /\ InComponentsDir(rel) =>
                      InBucket("components", rel) /\ ~InBucket("tests", rel)
                /\ IsTestName(files[i]) =>
                      (InBucket("tests", rel) <=>
                          \A k \in 1..5 : ~RuleMatches(RuleOrder[k], rel, ext, base))

\* C1 witness: Button.tsx and Button.test.tsx have both been categorized.
C1_Witness ==
    /\ Categorized
    /\ \E i, j \in 1..Len(files) :
          /\ RelOf(i) = "src/components/Button.tsx"
          /\ RelOf(j) = "src/components/Button.test.tsx"

\* C2: the bucket of every file is the label of the first rule, in the order
\* components, pages, api, hooks, utils, tests, styles, config, that matches
\* its path, and is other exactly when no rule matches.
C2_FirstMatchWins ==
    Categorized =>
        \A i \in 1..Len(files) :
            LET rel == RelOf(i) ext == extname(files[i]) base == basename(files[i])
            IN  /\ InBucket(FirstMatch(rel, ext, base), rel)
                /\ InBucket("other", rel) <=>
                      \A k \in 1..Len(RuleOrder) :
                          ~RuleMatches(RuleOrder[k], rel, ext, base)

\* C2 witness: a categorized list holding a file that two rules match and a
\* file that no rule matches.
C2_Witness ==
    /\ Categorized
    /\ \E i, j \in 1..Len(files) :
          /\ Cardinality({k \in 1..Len(RuleOrder) :
                RuleMatches(RuleOrder[k], RelOf(i), extname(files[i]),
                            basename(files[i]))}) >= 2
          /\ \A k \in 1..Len(RuleOrder) :
                ~RuleMatches(RuleOrder[k], RelOf(j), extname(files[j]),
                             basename(files[j]))

\* C3: every input file's relative path is in exactly one of the nine
\* buckets, as often as it is in the input, and the bucket sizes sum to the
\* number of input files.
C3_TotalSingleValued ==
    Categorized =>
        /\ DOMAIN categories = LabelSet
        /\ Len(categories["components"]) + Len(categories["pages"])
             + Len(categories["api"]) + Len(categories["hooks"])
             + Len(categories["utils"]) + Len(categories["tests"])
             + Len(categories["styles"]) + Len(categories["config"])
             + Len(categories["other"]) = Len(files)
        /\ \A i \in 1..Len(files) :
              /\ Cardinality({l \in LabelSet : InBucket(l, RelOf(i))}) = 1
              /\ \E l \in LabelSet :
                    Occurrences(categories[l], RelOf(i)) =
                        Occurrences([k \in 1..Len(files) |-> RelOf(k)], RelOf(i))

\* C3 witness: two files that several rules match have been categorized
\* into two different buckets.
C3_Witness ==
    /\ Categorized
    /\ Len(files) >= 2
    /\ IsTestName(files[1])
    /\ InComponentsDir(RelOf(1))
    /\ Cardinality({l \in LabelSet : categories[l] # <<>>}) >= 2

(***************************************************************************)
(* Properties of analyzeNamingConventions                                  *)
(***************************************************************************)
NamingDone == pc = "analyzePackageJson"

Stem(file) == basenameNoExt(file, extname(file))

\* the number of scanned files in each shape class
NPascal == Cardinality({i \in 1..Len(files) : IsPascal(Stem(files[i]))})

NCamel == Cardinality({i \in 1..Len(files) : IsCamel(Stem(files[i]))})

NKebab ==
    Cardinality({i \in 1..Len(files) :
        IsKebab(Stem(files[i])) /\ ~IsCamel(Stem(files[i]))})

NTsx == Cardinality({i \in 1..Len(files) : extname(files[i]) = ".tsx"})

NJsx == Cardinality({i \in 1..Len(files) : extname(files[i]) = ".jsx"})

NTestPaths == Cardinality({i \in 1..Len(files) : Includes(files[i], ".test.")})

NSpecPaths == Cardinality({i \in 1..Len(files) : Includes(files[i], ".spec.")})

NIndex == Cardinality({i \in 1..Len(files) : Stem(files[i]) = "index"})

\* C5: componentStyle is the shape class with the highest tally, ties broken
\* by the preference PascalCase > camelCase > kebab-case, so that the chosen
\* class never has a strictly smaller tally than another class.
C5_HighestTallyWins ==
    NamingDone /\ NPascal + NCamel + NKebab > 0 =>
        conventions.componentStyle =
            IF NPascal >= NCamel /\ NPascal >= NKebab THEN "PascalCase"
            ELSE IF NCamel >= NKebab THEN "camelCase"
            ELSE "kebab-case"

\* C6: fileExtension is .tsx when the .tsx files are at least as many as the
\* .jsx files (a tie, also of zero, included) and .jsx only when the .jsx
\* files are strictly more.
C6_TieDefaultsToTsx ==
    NamingDone =>
        conventions.fileExtension = IF NTsx >= NJsx THEN ".tsx" ELSE ".jsx"

\* C7: testNaming is .test. whenever the paths containing .test. are at
\* least as many as the paths containing .spec. (0/0 included), and is
\* .spec. only when the paths containing .spec. are strictly more.
C7_TestNamingTie ==
    NamingDone =>
        /\ NTestPaths >= NSpecPaths => conventions.testNaming = ".test."
        /\ conventions.testNaming = ".spec." => NSpecPaths > NTestPaths
        /\ conventions.testNaming \in {".test.", ".spec."}

\* C7 witness: a tree with as many .test. paths as .spec. paths, at least
\* one of each, has been analysed.
C7_Witness ==
    /\ NamingDone
    /\ NTestPaths = NSpecPaths
    /\ NTestPaths > 0

\* C8: indexFiles is true iff more than 5 files have the extension-less
\* basename index, barrelExports is true iff more than 10 have, and so
\* barrelExports implies indexFiles.
C8_IndexThresholds ==
    NamingDone =>
        /\ conventions.indexFiles <=> NIndex > 5
        /\ conventions.barrelExports <=> NIndex > 10
        /\ conventions.barrelExports => conventions.indexFiles

\* C8 witness: a tree with more than 10 index files has been analysed and
\* both flags are set.
C8_Witness ==
    /\ NamingDone
    /\ NIndex > 10
    /\ conventions.barrelExports
    /\ conventions.indexFiles

(***************************************************************************)
(* Properties of analyzePackageJson                                        *)
(***************************************************************************)
PackageJsonDone == pc \in {"analyzeTypeScriptConfig", "exit1"}

\* the dependency names present in dependencies or devDependencies
PresentDeps == DOMAIN pkgFile.dependencies \cup DOMAIN pkgFile.devDependencies

MergedDeps == SpreadDeps(pkgFile.dependencies, pkgFile.devDependencies)

\* a manifest object all of whose version values are strings
WellFormedManifest ==
    /\ pkgFile.kind = "object"
    /\ \A n \in PresentDeps : MergedDeps[n].t = "str"
    /\ \A n \in DOMAIN pkgFile.dependencies : pkgFile.dependencies[n].t = "str"

\* the rule lists of the five fields, in source order: the dependency names
\* of each rule and the values it may set
FieldRules(field) ==
    CASE field = "framework" ->
           << [deps |-> {"next"}, values |-> {"Next.js"}],
              [deps |-> {"remix", "@remix-run/react"}, values |-> {"Remix"}],
              [deps |-> {"astro"}, values |-> {"Astro"}],
              [deps |-> {"nuxt"}, values |-> {"Nuxt"}],
              [deps |-> {"svelte", "@sveltejs/kit"}, values |-> {"SvelteKit"}],
              [deps |-> {"gatsby"}, values |-> {"Gatsby"}],
              [deps |-> {"react"}, values |-> {"React", "React (Vite)"}],
              [deps |-> {"vue"}, values |-> {"Vue"}] >>
      [] field = "styling" ->
           << [deps |-> {"tailwindcss"}, values |-> {"Tailwind CSS"}],
              [deps |-> {"@mui/material"}, values |-> {"Material-UI"}],
              [deps |-> {"styled-components"}, values |-> {"Styled Components"}],
              [deps |-> {"@emotion/react"}, values |-> {"Emotion"}],
              [deps |-> {"sass", "node-sass"}, values |-> {"Sass/SCSS"}] >>
      [] field = "database" ->
           << [deps |-> {"@supabase/supabase-js"}, values |-> {"Supabase"}],
              [deps |-> {"firebase"}, values |-> {"Firebase"}],
              [deps |-> {"@prisma/client"}, values |-> {"Prisma"}],
              [deps |-> {"drizzle-orm"}, values |-> {"Drizzle"}],
              [deps |-> {"mongoose"}, values |-> {"MongoDB (Mongoose)"}] >>
      [] field = "testing" ->
           << [deps |-> {"vitest"}, values |-> {"Vitest"}],
              [deps |-> {"jest"}, values |-> {"Jest"}],
              [deps |-> {"@playwright/test"}, values |-> {"Playwright"}],
              [deps |-> {"cypress"}, values |-> {"Cypress"}] >>
      [] field = "buildTool" ->
           << [deps |-> {"turbo", "@turbo/gen"}, values |-> {"Turborepo"}],
              [deps |-> {"nx"}, values |-> {"Nx"}],
              [deps |-> {"vite"}, values |-> {"Vite"}],
              [deps |-> {"webpack"}, values |-> {"Webpack"}] >>

StackFields == {"framework", "styling", "database", "testing", "buildTool"}

\* the values the first rule of the field with a dependency in `present`
\* may set, {"null"} when no rule has one
FirstRuleValues(field, present) ==
    LET rules == FieldRules(field)
        M == {k \in 1..Len(rules) : rules[k].deps \cap present # {}}
    IN  IF M = {} THEN {"null"} ELSE rules[SetMin(M)].values

\* C4: each of framework, styling, database, testing and buildTool is the
\* value of the first rule of its list whose dependency name is present in
\* dependencies or devDependencies, and null exactly when none is present;
\* a manifest with both next and react yields Next.js.
C4_FirstPresentRule ==
    PackageJsonDone /\ WellFormedManifest =>
        \A field \in StackFields :
            packageJson[field] \in FirstRuleValues(field, PresentDeps)

\* C9: analyzePackageJson never raises and the run goes on to the next
\* analysis step; without a package.json every stack field is null and
\* features is empty; with any package.json, malformed ones included, every
\* stack field is null or one of the labels of its rules.
C9_NeverRaises ==
    /\ pc # "exit1"
    /\ PackageJsonDone =>
          /\ pkgFile.kind = "absent" =>
                /\ \A field \in StackFields \cup {"linting"} :
                      packageJson[field] = "null"
                /\ packageJson.features = <<>>
          /\ \A field \in StackFields :
                packageJson[field] \in
                    {"null"} \cup UNION {FieldRules(field)[k].values :
                                            k \in 1..Len(FieldRules(field))}
          /\ packageJson.linting \in {"null", "ESLint", "ESLint + Prettier", "Biome"}

\* C9 witness: a package.json whose react version is not a string has been
\* analysed: the framework was set before the failing call, the fields after
\* it stayed null, and main() reached its next step.
C9_Witness ==
    /\ pc = "analyzeTypeScriptConfig"
    /\ pkgFile.kind = "object"
    /\ "react" \in PresentDeps
    /\ MergedDeps["react"].t = "num"
    /\ packageJson.framework \in {"React", "React (Vite)"}
    /\ packageJson.features = <<>>

\* the dependency-to-tag rules: the independent checks, the TypeScript check
\* and the Monorepo tag of the build tools
TagRules ==
    {FeatureRules[k] : k \in 1..Len(FeatureRules)}
        \cup {[deps |-> {"typescript"}, tag |-> "TypeScript"],
              [deps |-> {"turbo", "@turbo/gen", "nx"}, tag |-> "Monorepo"]}

\* C10: for each dependency-to-tag rule the tag is in features iff one of
\* the rule's dependency names is present, whatever else is present, and no
\* tag is in features twice.
C10_TagsIndependent ==
    PackageJsonDone /\ WellFormedManifest =>
        /\ \A r \in TagRules :
              (\E i \in 1..Len(packageJson.features) :
                    packageJson.features[i] = r.tag)
                 <=> r.deps \cap PresentDeps # {}
        /\ \A i, j \in 1..Len(packageJson.features) :
              packageJson.features[i] = packageJson.features[j] => i = j

(***************************************************************************)
(* Properties of scanDirectory                                             *)
(***************************************************************************)
Scanned == pc = "categorizeFiles"

SeqSet(s) == {s[i] : i \in 1..Len(s)}

\* p lies below directory q
Under(q, p) == StartsWith(p, q \o "/")

\* p as a path relative to the root
BelowRoot(p) == SubSeq(p, Len(projectDir) + 2, Len(p))

SlashesOf(s) == {i \in 1..Len(s) : CharAt(s, i) = "/"}

\* the names of the directories a relative path passes through
DirNamesAbove(rel) ==
    LET S == SlashesOf(rel)
    IN  {SubSeq(rel, a + 1, b - 1) :
            <<a, b>> \in {t \in (S \cup {0}) \X S :
                            /\ t[1] < t[2]
                            /\ \A k \in S : ~(t[1] < k /\ k < t[2])}}

\* the depth of an entry: the entries of the root are at depth 1
EntryDepth(p) == Cardinality(SlashesOf(BelowRoot(p))) + 1

\* the depth of a directory: the root is at depth 0
DirDepth(q) == IF q = projectDir THEN 0 ELSE EntryDepth(q)

ClaimedIgnored ==
    {"node_modules", ".git", ".next", ".nuxt", "dist", "build", "out",
     ".cache", "coverage", ".turbo", ".vercel"}

Skipped(name) == name \in ClaimedIgnored \/ CharAt(name, 1) = "."

\* the root and the directories between the root and p
AncestorsOf(p) ==
    {q \in DOMAIN fsTree : (q = projectDir \/ Under(projectDir, q)) /\ Under(q, p)}

\* every directory from the root down to p is a readable directory that
\* the scan does not skip
Reachable(p) ==
    \A q \in AncestorsOf(p) :
        /\ fsTree[q].kind = "dir"
        /\ fsTree[q].readable
        /\ q # projectDir => ~Skipped(basename(q))

TreeFiles_(kinds) ==
    {p \in DOMAIN fsTree : Under(projectDir, p) /\ fsTree[p].kind \in kinds}

\* C11: no listed file or directory lies below the root in or under a
\* directory named in the ignore list or starting with a dot, and every
\* file at most maxDepth levels below the root that is reached through
\* readable directories of other names is listed
C11_IgnoredSkippedRestListed ==
    Scanned =>
        /\ \A p \in SeqSet(fileStructure.files) :
              /\ Under(projectDir, p)
              /\ \A n \in DirNamesAbove(BelowRoot(p)) : ~Skipped(n)
        /\ \A q \in SeqSet(fileStructure.dirs) :
              /\ Under(projectDir, q)
              /\ ~Skipped(basename(q))
              /\ \A n \in DirNamesAbove(BelowRoot(q)) : ~Skipped(n)
        /\ \A p \in TreeFiles_({"file"}) :
              (Reachable(p) /\ EntryDepth(p) <= DefaultMaxDepth)
                  => p \in SeqSet(fileStructure.files)

\* the tree holds files under a listed name and under a dot directory that
\* is not on the list, and files elsewhere that the scan returned
C11_Witness ==
    /\ Scanned
    /\ \E p \in TreeFiles_({"file"}) :
          "node_modules" \in DirNamesAbove(BelowRoot(p))
    /\ \E p \in TreeFiles_({"file"}) :
          ".agents" \in DirNamesAbove(BelowRoot(p))
    /\ \E p \in SeqSet(fileStructure.files) : EntryDepth(p) >= 2

\* the readable directories the scan does not skip, by depth
OpenDirs ==
    {q \in DOMAIN fsTree :
        /\ q = projectDir \/ Under(projectDir, q)
        /\ fsTree[q].kind = "dir"
        /\ fsTree[q].readable
        /\ q # projectDir => ~Skipped(basename(q))
        /\ Reachable(q)}

FilesIn(q) ==
    {join(q, fsTree[q].entries[i]) : i \in
        {j \in 1..Len(fsTree[q].entries) :
            fsTree[join(q, fsTree[q].entries[j])].kind # "dir"}}

\* C12 as claimed: the files of every directory at depth d <= maxDepth are
\* listed, nothing deeper is, and the scan raises nothing
C12_LimitInclusiveByDirectory ==
    /\ pc # "exit1"
    /\ Scanned =>
          /\ \A q \in OpenDirs :
                DirDepth(q) <= DefaultMaxDepth
                    => FilesIn(q) \subseteq SeqSet(fileStructure.files)
          /\ \A p \in SeqSet(fileStructure.files) :
                DirDepth(dirname(p)) <= DefaultMaxDepth

\* C12: the files of every directory at depth d < maxDepth are listed, a
\* directory at depth maxDepth is listed but not read, so every listed
\* entry lies at most maxDepth levels below the root, and the scan raises
\* nothing
C12_LimitInclusiveByEntry ==
    /\ pc # "exit1"
    /\ Scanned =>
          /\ \A q \in OpenDirs :
                /\ DirDepth(q) < DefaultMaxDepth
                      => FilesIn(q) \subseteq SeqSet(fileStructure.files)
                /\ (q # projectDir /\ DirDepth(q) <= DefaultMaxDepth)
                      => q \in SeqSet(fileStructure.dirs)
                /\ DirDepth(q) >= DefaultMaxDepth
                      => FilesIn(q) \cap SeqSet(fileStructure.files) = {}
          /\ \A p \in SeqSet(fileStructure.files) :
                EntryDepth(p) <= DefaultMaxDepth
          /\ \A q \in SeqSet(fileStructure.dirs) :
                EntryDepth(q) <= DefaultMaxDepth

\* the tree is deeper than the limit
C12_Witness ==
    /\ Scanned
    /\ \E q \in OpenDirs : DirDepth(q) > DefaultMaxDepth
    /\ \E q \in SeqSet(fileStructure.dirs) : DirDepth(q) = DefaultMaxDepth

\* the directories of the tree the process may not read
Unreadable ==
    {q \in DOMAIN fsTree : fsTree[q].kind = "dir" /\ ~fsTree[q].readable}

\* the same tree with every directory readable
AllReadable ==
    [p \in DOMAIN fsTree |-> [fsTree[p] EXCEPT !.readable = TRUE]]

\* C13: a directory that cannot be read contributes no file, the scan
\* raises nothing, and the files listed are those the scan of the same
\* tree without the failure lists outside that directory, in that order
C13_UnreadableSkipped ==
    /\ pc # "exit1"
    /\ Scanned =>
          LET outside(p) == \A q \in Unreadable : ~Under(q, p)
              without ==
                  scanDirectory(AllReadable, projectDir, DefaultMaxDepth, 0)
          IN  /\ \A p \in SeqSet(fileStructure.files) : outside(p)
              /\ fileStructure.files = SelectSeq(without.files, outside)
              /\ fileStructure.totalFiles = Len(fileStructure.files)
              /\ ~fileStructure.threw

\* an unreadable directory with a file in it, and files listed after it
C13_Witness ==
    /\ Scanned
    /\ \E q \in Unreadable :
          /\ Len(fsTree[q].entries) > 0
          /\ q \in SeqSet(fileStructure.dirs)
          /\ join(projectDir, "zed.ts") \in SeqSet(fileStructure.files)
          /\ join(projectDir, "README.md") \in SeqSet(fileStructure.files)

NoDuplicates(s) == \A i, j \in 1..Len(s) : s[i] = s[j] => i = j

Links == {p \in DOMAIN fsTree : fsTree[p].kind = "symlink"}

\* C14: the scan of every tree, a tree with a link to an ancestor included,
\* returns a result without an error; no directory is read twice, and a
\* link is listed as an entry and never descended into
C14_TerminatesOnCycles ==
    /\ pc # "exit1"
    /\ pc = "scanDirectory" =>
          LET r == scanDirectory(fsTree, projectDir, DefaultMaxDepth, 0)
          IN  ~r.threw /\ NoDuplicates(r.reads)
    /\ Scanned =>
          /\ NoDuplicates(fileStructure.reads)
          /\ \A q \in SeqSet(fileStructure.reads) :
                q \in DOMAIN fsTree /\ fsTree[q].kind = "dir"
          /\ \A l \in Links :
                /\ \A p \in SeqSet(fileStructure.files)
                           \cup SeqSet(fileStructure.dirs) : ~Under(l, p)
                /\ l \notin SeqSet(fileStructure.dirs)

\* the tree holds a link to one of its own ancestors
C14_Witness ==
    /\ Scanned
    /\ \E l \in Links :
          /\ Under(fsTree[l].target, l)
          /\ l \in SeqSet(fileStructure.files)
          /\ fsTree[l].target \in SeqSet(fileStructure.reads)

(***************************************************************************)
(* Properties of verifyConfiguration and of the verify mode                *)
(***************************************************************************)
\* a verify run in which verifyConfiguration has returned
Verified ==
    pc = "exited" /\ "--verify" \in args /\ verification # NoVerification

\* how many entries of list s are messages of the set M
CountIn(s, M) == Cardinality({i \in 1..Len(s) : s[i] \in M})

ListedAgents ==
    IF projectConfig.agents.t = "array" THEN projectConfig.agents.v ELSE <<>>

\* the adapter file of agent a is on disk
AdapterDetected(a) ==
    /\ a \in DOMAIN AGENTS
    /\ join(projectDir, AGENTS[a].file) \in DOMAIN fsTree

\* the warnings that name agent a
WarningsNaming(a) ==
    {w \in SeqSet(verification.warnings) :
        StartsWith(w, "Agent ") /\ Includes(w, "'" \o a \o "'")}

AgentSuccesses ==
    {s \in SeqSet(verification.successes) :
        EndsWith(s, " config file exists")}

\* C16: every listing of an agent whose adapter file is missing adds one
\* warning naming the agent and no issue; every listing of an agent whose
\* adapter file is there adds one success and no warning
C16_OneEntryPerListedAgent ==
    Verified =>
        /\ \A a \in SeqSet(ListedAgents) :
              IF AdapterDetected(a)
              THEN /\ CountIn(verification.successes,
                              {AGENTS[a].name \o " config file exists"})
                          = CountIn(ListedAgents, {a})
                   /\ WarningsNaming(a) = {}
              ELSE /\ CountIn(verification.warnings, WarningsNaming(a))
                          = CountIn(ListedAgents, {a})
                   /\ \A s \in SeqSet(verification.issues) :
                          ~Includes(s, "'" \o a \o "'")
        /\ CountIn(verification.successes, AgentSuccesses)
               = Cardinality({i \in 1..Len(ListedAgents) :
                                 AdapterDetected(ListedAgents[i])})

FrameworkWarnings ==
    {w \in SeqSet(verification.warnings) : StartsWith(w, "Framework mismatch")}

\* C17: with a persisted and a detected framework, a mismatch warning is
\* there exactly when neither lowercased value contains the other
C17_SubstringEitherWay ==
    (/\ Verified
     /\ projectConfig.project.t = "object"
     /\ projectConfig.project.framework \notin {"undefined", ""}
     /\ packageJson.framework # "null")
    => LET persisted == toLowerCase(projectConfig.project.framework)
           found == toLowerCase(packageJson.framework)
       IN  FrameworkWarnings = {}
               <=> (Includes(persisted, found)
                    \/ Includes(found, persisted))

ConfigMessages ==
    {"Missing .agents-project.json - run 'npx agents-init' first",
     ".agents-project.json exists"}

AgentsDirMessages ==
    {"Missing .agents/ folder - run 'npx agents-init' first",
     ".agents/ folder exists"}

AgentsMdMessages == {"Missing .agents/AGENTS.md", ".agents/AGENTS.md exists"}

ContextMessages ==
    {"Missing .agents/PROJECT-CONTEXT.md - run 'npx agents-analyze' to generate",
     ".agents/PROJECT-CONTEXT.md exists"}

\* the entries one expectation has added to the three lists together
EntriesOf(M) ==
    CountIn(verification.issues, M) + CountIn(verification.warnings, M)
    + CountIn(verification.successes, M)

AgentEntries == EntriesOf({AgentWarning(a) : a \in SeqSet(ListedAgents)}
                          \cup AgentSuccesses)

C19_BothAbsentFails ==
    (/\ "--verify" \in args
     /\ "--help" \notin args
     /\ cfgFile.kind = "absent"
     /\ join(projectDir, ".agents") \notin DOMAIN fsTree)
    => /\ pc \in {"start", "main", "exited"}
       /\ written = <<>>
       /\ pc = "exited" =>
             /\ exitCode = 1
             /\ errors = <<"No agents configuration found.">>

C19_Witness ==
    /\ "--verify" \in args
    /\ "--help" \notin args
    /\ cfgFile.kind = "absent"
    /\ join(projectDir, ".agents") \notin DOMAIN fsTree
    /\ pc = "exited"
    /\ exitCode = 1

YesAnswers ==
    {"y", "Y", "yes", "yeS", "yEs", "yES", "Yes", "YeS", "YEs", "YES"}

\* the operator has agreed and no flag forbids writing
Consent ==
    /\ args \cap {"--verify", "--report", "--dry-run"} = {}
    /\ answer \in YesAnswers

\* C20: files are written only in a run without --verify, --report and
\* --dry-run in which the operator answered y or yes in any case, and the
\* files are ANALYSIS.md and PROJECT-CONTEXT.md; every other run has
\* written nothing when it ends
C20_WritesOnlyOnConsent ==
    /\ written # <<>> =>
          /\ Consent
          /\ written = FilesToCreate(projectDir)
    /\ (pc = "exited" /\ ~Consent) => written = <<>>

\* an answer in capitals is consent
C20_Witness ==
    /\ pc = "exited"
    /\ answer \in {"Y", "YES", "Yes"}
    /\ written = FilesToCreate(projectDir)
    /\ \A p \in SeqSet(written) : p \in DOMAIN fsTree

(***************************************************************************)
(* Further properties of categorizeFiles and verifyConfiguration           *)
(***************************************************************************)
\* C26: every path of the pages bucket passes through a directory named
\* pages, app or routes and has the extension .ts, .tsx, .js or .jsx
C26_PagesNeedSegmentAndExt ==
    Categorized =>
        \A i \in 1..Len(categories["pages"]) :
            LET p == categories["pages"][i]
            IN  /\ DirNamesAbove(p) \cap {"pages", "app", "routes"} # {}
                /\ extname(p) \in {".ts", ".tsx", ".js", ".jsx"}

\* C27: no verify run ends in main().catch: verifyConfiguration returns
\* its three lists for every persisted configuration
C27_VerifyNeverThrows ==
    /\ pc = "verify" =>
          ~verifyConfiguration(fsTree, projectDir, projectConfig,
                               agentConfigs, packageJson).threw
    /\ pc = "exited" => "err.message" \notin SeqSet(errors)

(***************************************************************************)
(* Properties of the renderers and of detectKeyFiles.                      *)
(***************************************************************************)
\* main() has generated both reports
Generated == pc \in {"confirm", "exited"} /\ projectContext # <<>>

\* the first index of line x in the lines s, 0 when it is not there
LineIndex(s, x) ==
    IF \E i \in 1..Len(s) : s[i] = x
    THEN CHOOSE i \in 1..Len(s) : s[i] = x /\ \A j \in 1..(i - 1) : s[j] # x
    ELSE 0

\* the lines of section from up to the heading to, both headings excluded
Section(s, from, to) == SubSeq(s, LineIndex(s, from) + 1, LineIndex(s, to) - 1)

\* the lines of a section that are bullets
BulletsOf(s) == SelectSeq(s, LAMBDA l : StartsWith(l, "- "))

\* the six recommendation rules: the condition of each, and its line
RecommendationRules ==
    << [holds |-> JsTruthy(packageJson.framework),
        line |-> "- Framework-specific patterns for " \o packageJson.framework],
       [holds |-> JsTruthy(packageJson.styling),
        line |-> "- " \o packageJson.styling
                   \o " component patterns and class naming"],
       [holds |-> tsconfig.t = "object" /\ tsconfig.paths # <<>>,
        line |-> "- Import alias patterns (e.g., '@/components/...')"],
       [holds |-> JsTruthy(conventions.componentStyle),
        line |-> "- " \o conventions.componentStyle
                   \o " naming convention for components"],
       [holds |-> categories["api"] # <<>>,
        line |-> "- API route patterns and data fetching conventions"],
       [holds |-> JsTruthy(packageJson.testing),
        line |-> "- Testing patterns using " \o packageJson.testing] >>

RulesHolding == {i \in 1..Len(RecommendationRules) : RecommendationRules[i].holds}

\* the recommendation bullets of the generated report
RecommendationBullets ==
    BulletsOf(SubSeq(analysisReport,
                     LineIndex(analysisReport, "## Recommendations") + 1,
                     Len(analysisReport)))

\* C21: the report holds exactly one line for each recommendation rule
\* whose condition holds and none for the others, the lines of several
\* rules together and in rule order, and the fallback line exactly once
\* when no condition holds and not at all otherwise
C21_OneLinePerRule ==
    Generated =>
        /\ \A i \in 1..Len(RecommendationRules) :
              CountIn(analysisReport, {RecommendationRules[i].line})
                = (IF i \in RulesHolding THEN 1 ELSE 0)
        /\ CountIn(analysisReport, {NoRecommendations})
             = (IF RulesHolding = {} THEN 1 ELSE 0)
        /\ Len(RecommendationBullets)
             = (IF RulesHolding = {} THEN 1 ELSE Cardinality(RulesHolding))
        /\ \A i, j \in RulesHolding :
              i < j => LineIndex(RecommendationBullets,
                                 RecommendationRules[i].line)
                         < LineIndex(RecommendationBullets,
                                     RecommendationRules[j].line)

\* a report with the lines of the framework, alias and api rules together
C21_Witness ==
    /\ Generated
    /\ {1, 3, 5} \subseteq RulesHolding
    /\ CountIn(analysisReport, {NoRecommendations}) = 0

\* the lines of two reports agree but for the date line
SameButDate(a, b) ==
    /\ Len(a) = Len(b)
    /\ \A i \in 1..Len(a) : i # 3 => a[i] = b[i]

StackLine == projectContext[LineIndex(projectContext, "## Technology Stack") + 2]

\* the non-null values of the four stack fields, then TypeScript
StackValues ==
    SelectSeq(<<packageJson.framework, packageJson.styling,
                packageJson.database, packageJson.testing>>,
              LAMBDA x : x # "null")
    \o (IF "TypeScript" \in SeqSet(packageJson.features)
        THEN <<"TypeScript">> ELSE <<>>)

\* the manifest lists name among its dependencies
DependsOn(name) ==
    /\ pkgFile.kind = "object"
    /\ name \in DOMAIN pkgFile.dependencies \cup DOMAIN pkgFile.devDependencies

\* C23: the stack line is the non-null values of framework, styling,
\* database and testing, then TypeScript when that feature is present,
\* joined by ' + ' with no empty segment and no separator at either end;
\* for a manifest that depends on next and tailwindcss it holds
\* 'Next.js + Tailwind CSS'
C23_StackLine ==
    Generated =>
        /\ StackLine = Join(StackValues, " + ")
        /\ ~StartsWith(StackLine, " + ")
        /\ ~EndsWith(StackLine, " + ")
        /\ ~Includes(StackLine, " +  + ")
        /\ (DependsOn("next") /\ DependsOn("tailwindcss"))
              => Includes(StackLine, "Next.js + Tailwind CSS")

\* the bullets of the File Organization section
OrganizationBullets ==
    BulletsOf(Section(projectContext, "## File Organization",
                      "## Coding Standards"))

\* the representative directory of bucket l, as a bullet shows it
RepresentativeDir(l) == "'" \o FirstSegment(categories[l][1]) \o "/'"

NonEmptyLabels == {l \in DOMAIN categories : categories[l] # <<>>}

\* C24 as claimed: the section holds one bullet for each non-empty bucket,
\* every one naming the top-level segment of the first path of its bucket
C24_BulletPerNonEmptyBucket ==
    Generated =>
        /\ Len(OrganizationBullets) = Cardinality(NonEmptyLabels)
        /\ \A l \in NonEmptyLabels :
              \E i \in 1..Len(OrganizationBullets) :
                 Includes(OrganizationBullets[i], RepresentativeDir(l))

\* the buckets the section reports, in its order, and the titles it uses
ReportedLabels == <<"components", "pages", "api", "hooks", "utils">>

BulletTitle(l) ==
    CASE l = "components" -> "- **Components:** "
      [] l = "pages" -> "- **Pages/Routes:** "
      [] l = "api" -> "- **API Routes:** "
      [] l = "hooks" -> "- **Custom Hooks:** "
      [] l = "utils" -> "- **Utilities:** "

\* C24: the section holds, in this order, one bullet for each non-empty
\* bucket among components, pages, api, hooks and utils and no other
\* bullet; the bullets of components and pages name the top-level segment
\* of the first path of the bucket and the number of files, those of api,
\* hooks and utils the number of files only
C24_BulletsOfFiveBuckets ==
    Generated =>
        LET shown == SelectSeq(ReportedLabels, LAMBDA l : l \in NonEmptyLabels)
        IN  /\ Len(OrganizationBullets) = Len(shown)
            /\ \A i \in 1..Len(shown) :
                  LET l == shown[i]
                      n == ToString(Len(categories[l])) \o " files"
                  IN  OrganizationBullets[i] =
                        (IF l \in {"components", "pages"}
                         THEN BulletTitle(l) \o RepresentativeDir(l)
                                \o " (" \o n \o ")"
                         ELSE BulletTitle(l) \o n)

\* a context of a project with components below lib and src, api routes
\* and a test file
C24_Witness ==
    /\ Generated
    /\ {"components", "api", "tests"} \subseteq NonEmptyLabels
    /\ Includes(OrganizationBullets[1], "'lib/'")

KeyFilesDetected == pc = "analysed"

\* the names of the entries of directory dir of the tree
EntryNames(dir) ==
    IF dir \in DOMAIN fsTree THEN SeqSet(fsTree[dir].entries) ELSE {}

\* the well-known names of the ten keys
WellKnownNames ==
    [readme |-> {"README.md"}, contributing |-> {"CONTRIBUTING.md"},
     license |-> {"LICENSE"}, changelog |-> {"CHANGELOG.md"},
     envExample |-> {".env.example", ".env.local.example"},
     docker |-> {"Dockerfile", "docker-compose.yml"},
     cicd |-> {".github/workflows"}, husky |-> {".husky"},
     editorconfig |-> {".editorconfig"}, nvmrc |-> {".nvmrc"}]

\* name, a root entry or an entry of a directory of the root, is there
PresentBelowRoot(name) ==
    IF Includes(name, "/")
    THEN /\ FirstSegment(name) \in EntryNames(projectDir)
         /\ basename(name) \in EntryNames(join(projectDir, FirstSegment(name)))
    ELSE name \in EntryNames(projectDir)

\* C25: detectKeyFiles returns a map over the ten fixed keys, each true
\* exactly when one of its well-known names exists under the root; a root
\* that holds README.md alone gives readme true and the rest false; no
\* error is raised whatever is missing
C25_PresenceMap ==
    KeyFilesDetected =>
        /\ DOMAIN keyFiles = DOMAIN WellKnownNames
        /\ \A k \in DOMAIN WellKnownNames :
              keyFiles[k] <=> \E n \in WellKnownNames[k] : PresentBelowRoot(n)
        /\ EntryNames(projectDir) = {"README.md"} =>
              \A k \in DOMAIN keyFiles : keyFiles[k] <=> k = "readme"
        /\ errors = <<>> /\ exitCode = -1

\* a root with the second names of envExample and docker only
C25_Witness ==
    /\ KeyFilesDetected
    /\ EntryNames(projectDir) = {".env.local.example", "docker-compose.yml"}
    /\ keyFiles.envExample /\ keyFiles.docker /\ ~keyFiles.readme

(***************************************************************************)
(* Properties of agents-init, alone and followed by agents-analyze         *)
(* --verify on the project it leaves behind.                               *)
(***************************************************************************)
\* C28: without --force the loop that creates the files writes to no path
\* that existed before the run
C28_NoOverwriteWithoutForce ==
    [][(pc = "create" /\ "--force" \notin args)
         => \A i \in 1..Len(written') : written'[i] \notin DOMAIN fsTree]_vars

\* agents-init has written .agents-project.json
ConfigCreated ==
    /\ pc = "exited"
    /\ join(projectDir, ".agents-project.json") \in SeqSet(written)

\* verifyConfiguration of agents-analyze on the project as it is now
VerifyNow ==
    verifyConfiguration(fsTree, projectDir, loadProjectConfig(cfgFile).config,
                        detectAgentConfigs(fsTree, projectDir),
                        analyzePackageJson(pkgFile).analysis)

\* C29: the configuration agents-init has just written draws no version
\* warning from the verifier
C29_FreshConfigHasCurrentVersion ==
    ConfigCreated =>
        /\ cfgFile.version = CurrentVersion
        /\ \A w \in SeqSet(VerifyNow.warnings) :
              ~StartsWith(w, "Config version ")

\* C30: when agents-init detected the framework from the manifest and
\* recorded it, the verifier adds no framework mismatch warning for the
\* same manifest
C30_DetectedFrameworkVerifies ==
    (ConfigCreated /\ JsTruthy(detected.framework)) =>
        /\ cfgFile.project.framework = detected.framework
        /\ \A w \in SeqSet(VerifyNow.warnings) :
              ~StartsWith(w, "Framework mismatch")

====
